---- MODULE Spec2Model ----
(***************************************************************************)
(* A model of cppinvert::IocContainer (src/cppinvert/IocContainer.hpp):    *)
(* registries with a (type, name) keyed store of holders, a per-type       *)
(* factory registry, and a parent link set by the child-registry factory.  *)
(***************************************************************************)
EXTENDS Integers, FiniteSets, Sequences, TLC

\* ------------------------------------------------------------------ bounds
MaxRegs == 3            \* registries that can exist at once (Root included)
MaxObjs == 2            \* heap cells for values owned by registries
MaxThreads == 2         \* caller threads inside the registries at once

\* ------------------------------------------------------------- vocabulary
Root == 1
Regs == 1..MaxRegs
NoReg == 0                                   \* parent_ == nullptr
ObjIds == 1..MaxObjs
Names == {"", "a"}
Types == {"A", "constA", "B", "IocContainer"}   \* static types T of the templates
ValueTypes == {"A", "constA", "B"}              \* copyable value types; B derives from A
Values == {1, 2}

Threads == 1..MaxThreads
NoThread == 0                                \* mutex_ not owned

VARIABLES registeredInstances, registeredFactories, parent, alive, heap, last
\* stack[t]  the calls thread t is inside, the innermost last
\* mutex[r]  the owner and the lock count of the recursive mutex_ of registry r
\* done[t]   what the last call of thread t gave back, until its next call
VARIABLES stack, mutex, done
\* handles   the heap objects the caller holds a std::shared_ptr to
\* deleted   the caller's objects that a holder's release routine has deleted
\* callerRegs  the registries that are objects of the caller (Root, and the
\*             destinations of its moves)
VARIABLES handles, deleted, callerRegs
vars == <<registeredInstances, registeredFactories, parent, alive, heap, last,
          stack, mutex, done, handles, deleted, callerRegs>>

\* typeid(std::decay_t<T>).name(): the key a static type is stored under
getType(T) == IF T = "constA" THEN "A" ELSE T

EmptyMap == [x \in {} |-> 0]
MapPut(m, k, v) == [x \in (DOMAIN m) \cup {k} |-> IF x = k THEN v ELSE m[x]]
MapDel(m, k) == [x \in (DOMAIN m) \ {k} |-> m[x]]

\* The state of all registries as one value, so that operations are functions
World == [alive |-> alive, fact |-> registeredFactories, heap |-> heap,
          inst |-> registeredInstances, par |-> parent, handles |-> handles,
          roots |-> callerRegs]

\* ---------------------------------------------------------------- holders
\* A Holder is a boost::any around HolderPtr<T> = std::shared_ptr<T>:
\*   htype  the T of the HolderPtr<T> inside the any (holder.type())
\*   kind   what the pointer designates: a heap value ("val"), a registry ("reg")
\*          or the caller's object d of dynamic type B ("ext")
\*   own    "owned" (deleting shared_ptr held by the registry alone),
\*          "shared" (deleting shared_ptr the caller has a copy of),
\*          "borrowed" (null deleter)
Holder(T, kind, id, own) == [kind |-> kind, id |-> id, own |-> own, htype |-> T]
Addr(h) == <<h.kind, h.id>>
NoAddr == <<"null", 0>>
ExtD == 1                                    \* the caller's object d
ExtDVal == 2                                 \* the A::x member of d

Bound(w, r, key, n) ==
  /\ key \in DOMAIN w.inst[r]
  /\ n \in DOMAIN w.inst[r][key]

HoldersOf(w, r) ==
  UNION {{w.inst[r][k][n] : n \in DOMAIN w.inst[r][k]} : k \in DOMAIN w.inst[r]}

\* Registries kept alive by a deleting shared_ptr stored in r
OwnedRegs(w, r) == {h.id : h \in {x \in HoldersOf(w, r) : x.kind = "reg" /\ x.own # "borrowed"}}

RECURSIVE Reach(_, _, _)
Reach(w, frontier, seen) ==
  IF frontier = {} THEN seen
  ELSE LET nxt == UNION {OwnedRegs(w, r) : r \in frontier} \ (seen \cup frontier)
       IN Reach(w, nxt, seen \cup frontier)

\* Mutant of ReleaseTo: the caller's shared handles do not keep a value alive
ReleaseTo_ignoresHandles(w, live) ==
  [alive |-> live,
   fact |-> [r \in Regs |-> IF r \in live THEN w.fact[r] ELSE EmptyMap],
   heap |-> [o \in {x \in DOMAIN w.heap :
                     \E r \in live : \E h \in HoldersOf(w, r) : h.kind = "val" /\ h.id = x}
             |-> w.heap[o]],
   inst |-> [r \in Regs |-> IF r \in live THEN w.inst[r] ELSE EmptyMap],
   par |-> [r \in Regs |-> IF r \in live THEN w.par[r] ELSE NoReg],
   handles |-> w.handles, roots |-> w.roots]

\* shared_ptr release: a registry no holder owns any more is destroyed together
\* with its maps (~IocContainer), and a heap value that no holder and no
\* shared_ptr of the caller owns is deleted.
ReleaseTo(w, live) ==
  [alive |-> live,
   fact |-> [r \in Regs |-> IF r \in live THEN w.fact[r] ELSE EmptyMap],
   heap |-> [o \in {x \in DOMAIN w.heap :
                     \/ x \in w.handles
                     \/ \E r \in live : \E h \in HoldersOf(w, r) : h.kind = "val" /\ h.id = x}
             |-> w.heap[o]],
   inst |-> [r \in Regs |-> IF r \in live THEN w.inst[r] ELSE EmptyMap],
   par |-> [r \in Regs |-> IF r \in live THEN w.par[r] ELSE NoReg],
   handles |-> w.handles, roots |-> w.roots]

\* Mutant of Release: the registries go, the values they owned stay allocated
Release_leaksValues(w) ==
  [ReleaseTo(w, Reach(w, w.roots, {})) EXCEPT !.heap = w.heap]

Release(w) == ReleaseTo(w, Reach(w, w.roots, {}))

\* ---------------------------------------------------------------- factories
\* A registered factory is a boost::any around std::function:
\*   shape  "unique" = Factory<T, TArgs...>, "shared" = SharedFactory<T, TArgs...>
\*   ftype  the T of the std::function's result, nargs the length of TArgs
\*   maker  "ioc" = the constructor's lambda (owner = the captured this),
\*          "user" = a caller's function, whose products carry the value tag
\*          (owner = a registry its body captured and asks contains<T>() of
\*          before it constructs, NoReg for a body that calls nothing);
\*          "binds", "gets", "creates", "sizes" = a caller's function whose
\*          body first calls bindInstance<B>(n, ref(d)), getPtr<B>(n),
\*          createByName<B>(n) or size() on the registry owner
FactoryDesc(shape, T, nargs, maker, owner, tag) ==
  [shape |-> shape, nargs |-> nargs, maker |-> maker, owner |-> owner,
   tag |-> tag, ftype |-> T]

\* The tag of a caller's factory whose body throws instead of returning
Throws == 0

\* Mutant of DefaultFactories: the constructor registers nothing
DefaultFactories_none(r) == EmptyMap

\* IocContainer(): no parent, no instances, the factory of child registries
DefaultFactory(r) == FactoryDesc("unique", "IocContainer", 0, "ioc", r, 1)
DefaultFactories(r) == [k \in {"IocContainer"} |-> DefaultFactory(r)]

\* Mutant of registerFactory: insert, which keeps a factory that is there
registerFactory_keepsFirst(w, r, T, f) ==
  IF getType(T) \in DOMAIN w.fact[r] THEN w
  ELSE [w EXCEPT !.fact[r] = MapPut(@, getType(T), f)]

\* registerFactory<T>(factory): insert_or_assign under getType<T>()
registerFactory(w, r, T, f) ==
  [w EXCEPT !.fact[r] = MapPut(@, getType(T), f)]

\* Mutant of bindInstanceInternal: the name-map of the type is made anew
bindInstanceInternal_clearsType(w, r, T, n, h) ==
  Release([w EXCEPT !.inst[r] = MapPut(@, getType(T), MapPut(EmptyMap, n, h))])

\* Mutant of bindInstanceInternal: insert, which keeps an existing entry
bindInstanceInternal_keepsFirst(w, r, T, n, h) ==
  LET key == getType(T)
      inner == IF key \in DOMAIN w.inst[r] THEN w.inst[r][key] ELSE EmptyMap
  IN Release([w EXCEPT !.inst[r] =
                MapPut(@, key, IF n \in DOMAIN inner THEN inner ELSE MapPut(inner, n, h))])

\* bindInstanceInternal<T>(name, HolderPtr<T>)
bindInstanceInternal(w, r, T, n, h) ==
  LET key == getType(T)
      inner == IF key \in DOMAIN w.inst[r] THEN w.inst[r][key] ELSE EmptyMap
  IN Release([w EXCEPT !.inst[r] = MapPut(@, key, MapPut(inner, n, h))])

\* Mutant of eraseInstance: the emptied name-map of the type is left in place
eraseInstance_keepsEmptyMap(w, r, T, n) ==
  LET key == getType(T) IN
  IF key \in DOMAIN w.inst[r] /\ n \in DOMAIN w.inst[r][key]
  THEN Release([w EXCEPT !.inst[r] = MapPut(@, key, MapDel(w.inst[r][key], n))])
  ELSE w

\* Mutant of eraseInstance: the factory of the type goes with the entry
eraseInstance_dropsFactory(w, r, T, n) ==
  LET key == getType(T) IN
  IF key \in DOMAIN w.inst[r] /\ n \in DOMAIN w.inst[r][key]
  THEN LET inner == MapDel(w.inst[r][key], n)
       IN Release([w EXCEPT !.inst[r] =
                     IF DOMAIN inner = {} THEN MapDel(@, key) ELSE MapPut(@, key, inner),
                            !.fact[r] = MapDel(@, key)])
  ELSE w

\* eraseInstance<T>(name)
eraseInstance(w, r, T, n) ==
  LET key == getType(T) IN
  IF key \in DOMAIN w.inst[r] /\ n \in DOMAIN w.inst[r][key]
  THEN LET inner == MapDel(w.inst[r][key], n)
       IN Release([w EXCEPT !.inst[r] =
                     IF DOMAIN inner = {} THEN MapDel(@, key) ELSE MapPut(@, key, inner)])
  ELSE w

\* Where a product of a factory under key lives: a registry or a heap cell
ProductKind(key) == IF key = "IocContainer" THEN "reg" ELSE "val"
FreshOk(w, key, fresh) ==
  IF ProductKind(key) = "reg" THEN fresh \in Regs \ w.alive
  ELSE fresh \in ObjIds \ DOMAIN w.heap

\* Mutant of Invoke: the constructor's lambda leaves parent_ of the child unset
Invoke_orphan(w, f, key, fresh) ==
  IF ProductKind(key) = "reg"
  THEN [w EXCEPT !.alive = @ \cup {fresh},
                 !.par[fresh] = NoReg,
                 !.fact[fresh] = DefaultFactories(fresh),
                 !.inst[fresh] = EmptyMap]
  ELSE [w EXCEPT !.heap = MapPut(@, fresh, f.tag)]

\* factory(args...): the new object exists, nothing holds it yet
Invoke(w, f, key, fresh) ==
  IF ProductKind(key) = "reg"
  THEN [w EXCEPT !.alive = @ \cup {fresh},
                 !.par[fresh] = IF f.maker = "ioc" THEN f.owner ELSE NoReg,
                 !.fact[fresh] = DefaultFactories(fresh),
                 !.inst[fresh] = EmptyMap]
  ELSE [w EXCEPT !.heap = MapPut(@, fresh, f.tag)]

\* Mutant of createByName: a key that is already bound is left as it is
RECURSIVE createByName_memoizes(_, _, _, _, _, _)
createByName_memoizes(w, r, T, n, nargs, fresh) ==
  LET key == getType(T) IN
  IF key \in DOMAIN w.fact[r]
  THEN LET f == w.fact[r][key]
           sig == f.ftype = T /\ f.nargs = nargs
           own == IF f.shape = "shared" /\ sig THEN "shared"
                  ELSE IF f.shape = "unique" /\ sig THEN "owned"
                  ELSE "bad_any_cast"
       IN IF own = "bad_any_cast" THEN [w |-> w, status |-> "bad_any_cast", made |-> 0]
          ELSE IF Bound(w, r, key, n) THEN [w |-> w, status |-> "ok", made |-> 0]
          ELSE IF f.tag = Throws THEN [w |-> w, status |-> "factory_error", made |-> 1]
          ELSE IF ~FreshOk(w, key, fresh) THEN [w |-> w, status |-> "nomem", made |-> 0]
          ELSE [w |-> bindInstanceInternal(Invoke(w, f, key, fresh), r, T, n,
                                           Holder(T, ProductKind(key), fresh, own)),
                status |-> "ok", made |-> 1]
  ELSE IF w.par[r] = NoReg
  THEN [w |-> w, status |-> "NotFound", made |-> 0]
  ELSE createByName_memoizes(w, w.par[r], T, n, nargs, fresh)

\* Mutant of createByName: the name-map of the type is made (operator[]) before
\* the factory is invoked
RECURSIVE createByName_mapBeforeInvoke(_, _, _, _, _, _)
createByName_mapBeforeInvoke(w, r, T, n, nargs, fresh) ==
  LET key == getType(T) IN
  IF key \in DOMAIN w.fact[r]
  THEN LET f == w.fact[r][key]
           sig == f.ftype = T /\ f.nargs = nargs
           own == IF f.shape = "shared" /\ sig THEN "shared"
                  ELSE IF f.shape = "unique" /\ sig THEN "owned"
                  ELSE "bad_any_cast"
           touched == [w EXCEPT !.inst[r] =
                         IF key \in DOMAIN @ THEN @ ELSE MapPut(@, key, EmptyMap)]
       IN IF own = "bad_any_cast" THEN [w |-> w, status |-> "bad_any_cast", made |-> 0]
          ELSE IF f.tag = Throws THEN [w |-> touched, status |-> "factory_error", made |-> 1]
          ELSE IF ~FreshOk(w, key, fresh) THEN [w |-> w, status |-> "nomem", made |-> 0]
          ELSE [w |-> bindInstanceInternal(Invoke(w, f, key, fresh), r, T, n,
                                           Holder(T, ProductKind(key), fresh, own)),
                status |-> "ok", made |-> 1]
  ELSE IF w.par[r] = NoReg
  THEN [w |-> w, status |-> "NotFound", made |-> 0]
  ELSE createByName_mapBeforeInvoke(w, w.par[r], T, n, nargs, fresh)

\* createByName<T, TArgs...>(name, args...); made counts the factory invocations
RECURSIVE createByName(_, _, _, _, _, _)
createByName(w, r, T, n, nargs, fresh) ==
  LET key == getType(T) IN
  IF key \in DOMAIN w.fact[r]
  THEN LET f == w.fact[r][key]
           sig == f.ftype = T /\ f.nargs = nargs
           \* SharedFactory<T, TArgs...> first, else any_cast<Factory<T, TArgs...>>
           own == IF f.shape = "shared" /\ sig THEN "shared"
                  ELSE IF f.shape = "unique" /\ sig THEN "owned"
                  ELSE "bad_any_cast"
       IN IF own = "bad_any_cast" THEN [w |-> w, status |-> "bad_any_cast", made |-> 0]
          ELSE IF f.tag = Throws THEN [w |-> w, status |-> "factory_error", made |-> 1]
          ELSE IF ~FreshOk(w, key, fresh) THEN [w |-> w, status |-> "nomem", made |-> 0]
          ELSE [w |-> bindInstanceInternal(Invoke(w, f, key, fresh), r, T, n,
                                           Holder(T, ProductKind(key), fresh, own)),
                status |-> "ok", made |-> 1]
  ELSE IF w.par[r] = NoReg
  THEN [w |-> w, status |-> "NotFound", made |-> 0]
  ELSE createByName(w, w.par[r], T, n, nargs, fresh)

\* factory(args...) of the non-storing creates: the product goes to the caller
Produce(w, f, key, fresh) ==
  IF f.tag = Throws THEN [w |-> w, status |-> "factory_error", ret |-> NoAddr, made |-> 1]
  ELSE IF ~FreshOk(w, key, fresh) THEN [w |-> w, status |-> "nomem", ret |-> NoAddr, made |-> 0]
  ELSE [w |-> w, status |-> "ok", ret |-> <<ProductKind(key), fresh>>, made |-> 1]
Thrown(w, status) == [w |-> w, status |-> status, ret |-> NoAddr, made |-> 0]

\* Mutant of createByNameWithoutStoring: a shared factory is invoked and its
\* product handed out as if it were exclusively owned
RECURSIVE createByNameWithoutStoring_reinterprets(_, _, _, _, _, _)
createByNameWithoutStoring_reinterprets(w, r, T, n, nargs, fresh) ==
  LET key == getType(T) IN
  IF key \in DOMAIN w.fact[r]
  THEN IF w.fact[r][key].ftype = T /\ w.fact[r][key].nargs = nargs
       THEN Produce(w, w.fact[r][key], key, fresh)
       ELSE Thrown(w, "TypeMismatch")
  ELSE IF w.par[r] = NoReg THEN Thrown(w, "NotFound")
  ELSE createByNameWithoutStoring_reinterprets(w, w.par[r], T, n, nargs, fresh)

\* createByNameWithoutStoring<T, TArgs...>(name, args...): a SharedFactory of the
\* signature and a factory of another signature are both IocException
RECURSIVE createByNameWithoutStoring(_, _, _, _, _, _)
createByNameWithoutStoring(w, r, T, n, nargs, fresh) ==
  LET key == getType(T) IN
  IF key \in DOMAIN w.fact[r]
  THEN IF /\ w.fact[r][key].shape = "unique"
          /\ w.fact[r][key].ftype = T /\ w.fact[r][key].nargs = nargs
       THEN Produce(w, w.fact[r][key], key, fresh)
       ELSE Thrown(w, "TypeMismatch")
  ELSE IF w.par[r] = NoReg THEN Thrown(w, "NotFound")
  ELSE createByNameWithoutStoring(w, w.par[r], T, n, nargs, fresh)

\* Mutant of createByNameWithoutStoringShared: the product is bound as well
createByNameWithoutStoringShared_stores(w, r, T, n, nargs, fresh) ==
  LET key == getType(T) IN
  IF key \in DOMAIN w.fact[r]
  THEN IF w.fact[r][key].ftype = T /\ w.fact[r][key].nargs = nargs
       THEN IF w.fact[r][key].tag = Throws \/ ~FreshOk(w, key, fresh)
            THEN Produce(w, w.fact[r][key], key, fresh)
            ELSE [w |-> bindInstanceInternal(Invoke(w, w.fact[r][key], key, fresh), r, T, n,
                                             Holder(T, ProductKind(key), fresh, "shared")),
                  status |-> "ok", ret |-> <<ProductKind(key), fresh>>, made |-> 1]
       ELSE Thrown(w, "bad_any_cast")
  ELSE IF w.par[r] = NoReg THEN Thrown(w, "NotFound")
  ELSE createByNameWithoutStoring(w, w.par[r], T, n, nargs, fresh)

\* createByNameWithoutStoringShared<T, TArgs...>(name, args...): a Factory of the
\* signature is converted, anything else goes through any_cast<SharedFactory>;
\* without a factory the parent's createByNameWithoutStoring is called
createByNameWithoutStoringShared(w, r, T, n, nargs, fresh) ==
  LET key == getType(T) IN
  IF key \in DOMAIN w.fact[r]
  THEN IF w.fact[r][key].ftype = T /\ w.fact[r][key].nargs = nargs
       THEN Produce(w, w.fact[r][key], key, fresh)
       ELSE Thrown(w, "bad_any_cast")
  ELSE IF w.par[r] = NoReg THEN Thrown(w, "NotFound")
  ELSE createByNameWithoutStoring(w, w.par[r], T, n, nargs, fresh)

\* find<T>(name, false) after createByName<T>(name) gave c (an exception of
\* createByName propagates)
findCreated(c, r, key, n) ==
  [w |-> c.w, found |-> c.status = "ok" /\ Bound(c.w, r, key, n),
   status |-> c.status, made |-> c.made]

\* Mutant of find: the product of the factory is not bound
find_forgetsProduct(w, r, T, n, fresh) ==
  LET key == getType(T) IN
  IF Bound(w, r, key, n) THEN [w |-> w, found |-> TRUE, status |-> "ok", made |-> 0]
  ELSE IF key \in DOMAIN w.fact[r]
  THEN [findCreated(createByName(w, r, T, n, 0, fresh), r, key, n)
          EXCEPT !.w = w, !.found = FALSE]
  ELSE [w |-> w, found |-> FALSE, status |-> "ok", made |-> 0]

\* Mutant of find: the factory is tried before the store is looked at
find_skipsStore(w, r, T, n, fresh) ==
  LET key == getType(T) IN
  IF key \in DOMAIN w.fact[r]
  THEN findCreated(createByName(w, r, T, n, 0, fresh), r, key, n)
  ELSE [w |-> w, found |-> Bound(w, r, key, n), status |-> "ok", made |-> 0]

\* find<T>(name, checkFactory = true)
find(w, r, T, n, fresh) ==
  LET key == getType(T) IN
  IF Bound(w, r, key, n) THEN [w |-> w, found |-> TRUE, status |-> "ok", made |-> 0]
  ELSE IF key \in DOMAIN w.fact[r]
  THEN findCreated(createByName(w, r, T, n, 0, fresh), r, key, n)
  ELSE [w |-> w, found |-> FALSE, status |-> "ok", made |-> 0]

NoHolder == Holder("none", "null", 0, "none")

\* getInternal<T>(name); get<T>(name) repeats its body
getFound(item, r, T, n) ==
  LET out(status, h) == [w |-> item.w, status |-> status, holder |-> h, made |-> item.made]
  IN IF item.status # "ok" THEN out(item.status, NoHolder)
     ELSE IF ~item.found THEN out("NotFound", NoHolder)
     ELSE LET h == item.w.inst[r][getType(T)][n]
          IN IF h.htype = T THEN out("ok", h) ELSE out("TypeMismatch", NoHolder)
getInternal(w, r, T, n, fresh) == getFound(find(w, r, T, n, fresh), r, T, n)

\* *ptr of a holder, as get<T> copies it
Deref(w, h) == IF h.kind = "val" THEN w.heap[h.id] ELSE ExtDVal

\* Mutant of contains: any entry of the type counts, whatever its name
contains_anyName(w, r, T, n) ==
  LET key == getType(T) IN key \in DOMAIN w.inst[r] \/ key \in DOMAIN w.fact[r]

\* contains<T>(name)
contains(w, r, T, n) ==
  LET key == getType(T) IN Bound(w, r, key, n) \/ key \in DOMAIN w.fact[r]

RECURSIVE SumMap(_)
SumMap(m) ==
  IF DOMAIN m = {} THEN 0
  ELSE LET k == CHOOSE x \in DOMAIN m : TRUE IN m[k] + SumMap(MapDel(m, k))

\* Mutant of size: the registered factories are counted as well
size_countsFactories(w, r, recursive, depth) ==
  Cardinality(UNION {{<<k, n>> : n \in DOMAIN w.inst[r][k]} : k \in DOMAIN w.inst[r]})
    + Cardinality(DOMAIN w.fact[r])

Diverges == -1
\* size(recursive); depth counts the registries on the current call path, and a
\* path longer than the number of registries repeats one: the recursion never ends
RECURSIVE size(_, _, _, _)
\* size += item->size(recursive) over the holders of registries, given in sub
AddSizes(own, sub) ==
  IF \E n \in DOMAIN sub : sub[n] = Diverges THEN Diverges ELSE own + SumMap(sub)
size(w, r, recursive, depth) ==
  LET own == SumMap([k \in DOMAIN w.inst[r] |-> Cardinality(DOMAIN w.inst[r][k])])
      typeName == getType("IocContainer")
  IN IF ~recursive \/ typeName \notin DOMAIN w.inst[r] THEN own
     ELSE IF depth >= MaxRegs THEN Diverges
     ELSE AddSizes(own, [n \in DOMAIN w.inst[r][typeName] |->
                           size(w, w.inst[r][typeName][n].id, recursive, depth + 1)])

\* ------------------------------------------------------------------ actions
\* What the last call was and what it gave back to its caller
Last(op, r, T, n, status, ret, made) ==
  [nargs |-> 0, status |-> status, made |-> made, ret |-> ret, op |-> op,
   name |-> n, reg |-> r, type |-> T]

\* The caller's objects that some live registry holds with a deleting release
\* routine: the routine runs when the last such holder goes
Deleting(w) ==
  {h.id : h \in {x \in UNION {HoldersOf(w, r) : r \in w.alive} :
                   x.kind = "ext" /\ x.own # "borrowed"}}

Store(w) ==
  /\ deleted' = deleted \cup (Deleting(World) \ Deleting(w))
  /\ registeredInstances' = w.inst
  /\ registeredFactories' = w.fact
  /\ parent' = w.par
  /\ alive' = w.alive
  /\ heap' = w.heap
  /\ handles' = w.handles
  /\ callerRegs' = w.roots

\* A call made by one caller while no other thread is inside a registry: every
\* lock it takes it has released, no thread changes place
Commit(w) ==
  /\ Store(w)
  /\ UNCHANGED <<stack, mutex, done>>

\* The creates that hand their product to the caller
NonCaching == {"createByNameWithoutStoring", "createByNameWithoutStoringShared"}
\* The product the caller got from its last call and still holds
CallerHeld ==
  IF last.op \in NonCaching /\ last.status = "ok" /\ last.ret[1] = "val"
  THEN {last.ret[2]} ELSE {}

\* The addresses an allocation may return: any cell that is not in use
FreshChoices(key) ==
  LET free == IF ProductKind(key) = "reg" THEN Regs \ alive
              ELSE ObjIds \ (DOMAIN heap \cup CallerHeld)
  IN IF free = {} THEN {0} ELSE free

Init ==
  /\ registeredInstances = [r \in Regs |-> EmptyMap]
  /\ registeredFactories =
       [r \in Regs |-> IF r = Root THEN DefaultFactories(r) ELSE EmptyMap]
  /\ parent = [r \in Regs |-> NoReg]
  /\ alive = {Root}
  /\ heap = EmptyMap
  /\ last = Last("init", Root, "none", "", "ok", NoAddr, 0)
  /\ stack = [t \in Threads |-> <<>>]
  /\ mutex = [r \in Regs |-> [owner |-> NoThread, count |-> 0]]
  /\ done = [t \in Threads |-> last]
  /\ handles = {}
  /\ deleted = {}
  /\ callerRegs = {Root}

\* r.bindValue<T>(n, v): std::make_shared<T>(v), then bindInstance<T>(n, shared_ptr)
BindValue(r, T, n, v) ==
  \E fresh \in ObjIds \ DOMAIN heap :
    /\ Commit(bindInstanceInternal([World EXCEPT !.heap = MapPut(@, fresh, v)],
                                   r, T, n, Holder(T, "val", fresh, "owned")))
    /\ last' = Last("bindValue", r, T, n, "ok", <<"value", v>>, 0)

\* r.bindInstance<T>(n, std::make_unique<T>(v)): the registry takes the object over
BindUnique(r, T, n, v) ==
  \E fresh \in ObjIds \ DOMAIN heap :
    /\ Commit(bindInstanceInternal([World EXCEPT !.heap = MapPut(@, fresh, v)],
                                   r, T, n, Holder(T, "val", fresh, "owned")))
    /\ last' = Last("bindUnique", r, T, n, "ok", <<"value", v>>, 0)

\* p = std::make_shared<T>(v); r.bindInstance<T>(n, p): the caller keeps p
BindShared(r, T, n, v) ==
  \E fresh \in ObjIds \ DOMAIN heap :
    /\ Commit(bindInstanceInternal([World EXCEPT !.heap = MapPut(@, fresh, v),
                                                  !.handles = @ \cup {fresh}],
                                   r, T, n, Holder(T, "val", fresh, "shared")))
    /\ last' = Last("bindShared", r, T, n, "ok", <<"val", fresh>>, 0)

\* p.reset() on a std::shared_ptr p the caller holds
ResetHandle(o) ==
  /\ o \in handles
  /\ Commit(Release([World EXCEPT !.handles = @ \ {o}]))
  /\ last' = Last("reset", Root, "none", "", "ok", <<"val", o>>, 0)

\* Mutant of BindRef: the holder is stored under the type of the argument
BindRef_derivedKey(r, T, n) ==
  /\ Commit(bindInstanceInternal(World, r, "B", n, Holder("B", "ext", ExtD, "borrowed")))
  /\ last' = Last("bindRef", r, T, n, "ok", <<"ext", ExtD>>, 0)

\* r.bindInstance<T>(n, std::ref(d)) for the caller's d of type B; T = B, or a
\* base of it (the TBase, TDerived overload)
BindRef(r, T, n) ==
  /\ Commit(bindInstanceInternal(World, r, T, n, Holder(T, "ext", ExtD, "borrowed")))
  /\ last' = Last("bindRef", r, T, n, "ok", <<"ext", ExtD>>, 0)

\* Mutant of BindPtr: the shared_ptr around the pointer has the default deleter
BindPtr_deleting(r, T, n) ==
  /\ Commit(bindInstanceInternal(World, r, T, n, Holder(T, "ext", ExtD, "owned")))
  /\ last' = Last("bindPtr", r, T, n, "ok", <<"ext", ExtD>>, 0)

\* r.bindInstance<T>(n, &d) for the caller's d
BindPtr(r, T, n) ==
  /\ Commit(bindInstanceInternal(World, r, T, n, Holder(T, "ext", ExtD, "borrowed")))
  /\ last' = Last("bindPtr", r, T, n, "ok", <<"ext", ExtD>>, 0)

\* r.bindInstance(n, std::ref(root)): a caller-owned registry bound by reference
BindRegistryRef(r, n) ==
  /\ Commit(bindInstanceInternal(World, r, "IocContainer", n,
                                 Holder("IocContainer", "reg", Root, "borrowed")))
  /\ last' = Last("bindRef", r, "IocContainer", n, "ok", <<"reg", Root>>, 0)

\* What a move leaves: dst has the parent pointer, the factories (with what
\* their bodies captured) and the instances of src, src keeps its pointer
\* and has empty maps
moveFrom(w, dst, src) ==
  [w EXCEPT !.par[dst] = w.par[src],
            !.fact[dst] = w.fact[src], !.inst[dst] = w.inst[src],
            !.fact[src] = EmptyMap, !.inst[src] = EmptyMap]

\* IocContainer dst(std::move(src)) for a registry src of the caller
MoveConstruct(src) ==
  \E dst \in Regs \ alive :
    /\ Commit(moveFrom([World EXCEPT !.alive = @ \cup {dst}, !.roots = @ \cup {dst}],
                       dst, src))
    /\ last' = Last("move", dst, "IocContainer", "", "ok", <<"reg", src>>, 0)

\* dst = std::move(src) for two registries of the caller; what dst held is
\* released
MoveAssign(dst, src) ==
  /\ dst # src
  /\ Commit(Release(moveFrom(World, dst, src)))
  /\ last' = Last("moveAssign", dst, "IocContainer", "", "ok", <<"reg", src>>, 0)

\* r.registerFactory<T>(Factory<T, TArgs...> or SharedFactory<T, TArgs...>)
RegisterFactory(r, T, shape, nargs, tag) ==
  /\ Commit(registerFactory(World, r, T, FactoryDesc(shape, T, nargs, "user", NoReg, tag)))
  /\ last' = [Last("registerFactory", r, T, "", "ok", <<shape, tag>>, 0)
                EXCEPT !.nargs = nargs]

\* r.eraseInstance<T>(n)
EraseInstance(r, T, n) ==
  /\ Commit(eraseInstance(World, r, T, n))
  /\ last' = Last("eraseInstance", r, T, n, "ok", NoAddr, 0)

\* r.createByName<T>(n, args...)
CreateByName(r, T, n, nargs) ==
  \E fresh \in FreshChoices(getType(T)) :
    \E out \in {createByName(World, r, T, n, nargs, fresh)} :
    /\ out.status # "nomem"
    /\ Commit(out.w)
    /\ last' = [Last("createByName", r, T, n, out.status, NoAddr, out.made)
                  EXCEPT !.nargs = nargs]

\* r.createByNameWithoutStoring<T>(n, args...): the caller gets a unique_ptr
CreateByNameWithoutStoring(r, T, n, nargs) ==
  \E fresh \in FreshChoices(getType(T)) :
    \E out \in {createByNameWithoutStoring(World, r, T, n, nargs, fresh)} :
    /\ out.status # "nomem"
    /\ Commit(out.w)
    /\ last' = [Last("createByNameWithoutStoring", r, T, n, out.status, out.ret, out.made)
                  EXCEPT !.nargs = nargs]

\* r.createByNameWithoutStoringShared<T>(n, args...): the caller gets a shared_ptr
CreateByNameWithoutStoringShared(r, T, n, nargs) ==
  \E fresh \in FreshChoices(getType(T)) :
    \E out \in {createByNameWithoutStoringShared(World, r, T, n, nargs, fresh)} :
    /\ out.status # "nomem"
    /\ Commit(out.w)
    /\ last' = [Last("createByNameWithoutStoringShared", r, T, n, out.status, out.ret,
                      out.made) EXCEPT !.nargs = nargs]

\* r.get<T>(n): a copy of the stored object
Get(r, T, n) ==
  \E fresh \in FreshChoices(getType(T)) :
    \E out \in {getInternal(World, r, T, n, fresh)} :
    /\ out.status # "nomem"
    /\ Commit(out.w)
    /\ last' = Last("get", r, T, n, out.status,
                    IF out.status = "ok" THEN <<"value", Deref(out.w, out.holder)>>
                    ELSE NoAddr, out.made)

\* Mutant of Retrieve: getShared hands out a copy made with make_shared
Retrieve_sharedCopy(op, r, T, n) ==
  \E fresh \in FreshChoices(getType(T)) :
    \E out \in {getInternal(World, r, T, n, fresh)} :
    /\ out.status # "nomem"
    /\ Commit(out.w)
    /\ \E copy \in ObjIds :
         last' = Last(op, r, T, n, out.status,
                      IF out.status # "ok" THEN NoAddr
                      ELSE IF op = "getShared" THEN <<"val", copy>>
                      ELSE Addr(out.holder), out.made)

\* r.getPtr<T>(n), r.getRef<T>(n), r.getShared<T>(n): the address in the holder
Retrieve(op, r, T, n) ==
  \E fresh \in FreshChoices(getType(T)) :
    \E out \in {getInternal(World, r, T, n, fresh)} :
    /\ out.status # "nomem"
    /\ Commit(out.w)
    /\ last' = Last(op, r, T, n, out.status,
                    IF out.status = "ok" THEN Addr(out.holder) ELSE NoAddr, out.made)

\* p = r.getShared<T>(n), and the caller keeps p
KeepShared(r, T, n) ==
  \E fresh \in FreshChoices(getType(T)) :
    \E out \in {getInternal(World, r, T, n, fresh)} :
    /\ out.status # "nomem"
    /\ Commit(IF out.status = "ok" /\ out.holder.kind = "val"
              THEN [out.w EXCEPT !.handles = @ \cup {out.holder.id}] ELSE out.w)
    /\ last' = Last("getShared", r, T, n, out.status,
                    IF out.status = "ok" THEN Addr(out.holder) ELSE NoAddr, out.made)

GetPtr(r, T, n) == Retrieve("getPtr", r, T, n)
GetRef(r, T, n) == Retrieve("getRef", r, T, n)
GetShared(r, T, n) == Retrieve("getShared", r, T, n)

\* Mutant of Contains: the lookup goes through find, which creates
Contains_creates(r, T, n) ==
  \E fresh \in FreshChoices(getType(T)) :
    \E item \in {find(World, r, T, n, fresh)} :
    /\ item.status # "nomem"
    /\ Commit(item.w)
    /\ last' = Last("contains", r, T, n, "ok",
                    <<"bool", IF item.found THEN 1 ELSE 0>>, item.made)

\* r.contains<T>(n)
Contains(r, T, n) ==
  /\ Commit(World)
  /\ last' = Last("contains", r, T, n, "ok", <<"bool", IF contains(World, r, T, n) THEN 1 ELSE 0>>, 0)

\* r.size(recursive); a call that never returns has no step
Size(r, recursive) ==
  \E k \in {size(World, r, recursive, 0)} :
  /\ k # Diverges
  /\ Commit(World)
  /\ last' = Last(IF recursive THEN "sizeRecursive" ELSE "size", r, "none", "", "ok",
                  <<"count", k>>, 0)

\* ------------------------------------------------------------------ threads
\* Caller threads inside the registries: a call is a frame on the thread's stack
\* and runs in the steps between which another thread can run.
\*   fn, op   the function the frame is in, the public operation it was called as
\*   pc       "entry" before Lock lock(mutex_), then the place in the body, "exit"
\*            when the function returns or throws (status)
\*   f, fresh the factory copied out of the registry, the address of its product
\*   rec, todo, acc   size(recursive): the names still to visit, the sum so far
worldVars == <<registeredInstances, registeredFactories, parent, alive, heap, handles,
               deleted, callerRegs>>
NoFactory == FactoryDesc("none", "none", 0, "none", NoReg, 0)
Frame(fn, op, r, T, n, pc) ==
  [f |-> NoFactory, fresh |-> 0, status |-> "ok", made |-> 0, ret |-> NoAddr,
   op |-> op, name |-> n, reg |-> r, type |-> T, fn |-> fn, pc |-> pc, acc |-> 0,
   rec |-> FALSE, todo |-> {}]

Inside(t) == stack[t] # <<>>
Top(t) == stack[t][Len(stack[t])]
At(t, fn, pc) == Inside(t) /\ Top(t).fn = fn /\ Top(t).pc = pc
SetTop(t, fr) == [stack EXCEPT ![t][Len(stack[t])] = fr]
\* The caller, left as the frame caller, calls the function of frame fr
Enter(t, caller, fr) ==
  [stack EXCEPT ![t] = Append([stack[t] EXCEPT ![Len(stack[t])] = caller], fr)]
FramesOf(t) == {stack[t][i] : i \in DOMAIN stack[t]}

\* The functions that begin with Lock lock(mutex_)
LockedFns == {"registerFactory", "getInternal", "bindInstanceInternal", "size", "contains"}

\* A thread outside the registries calls a public operation
NotDone == Last("init", Root, "none", "", "ok", NoAddr, 0)
Call(t, fr) ==
  /\ ~Inside(t)
  /\ fr.reg \in alive
  /\ stack' = [stack EXCEPT ![t] = <<fr>>]
  /\ done' = [done EXCEPT ![t] = NotDone]
  /\ UNCHANGED <<worldVars, last, mutex>>
CallRegisterFactory(t, r, T, f) ==
  Call(t, [Frame("registerFactory", "registerFactory", r, T, "", "entry") EXCEPT !.f = f])
CallRetrieve(t, op, r, T, n) == Call(t, Frame("getInternal", op, r, T, n, "entry"))
CallCreateByName(t, r, T, n) == Call(t, Frame("createByName", "createByName", r, T, n, "lookup"))
CallSize(t, r, recursive) ==
  Call(t, [Frame("size", IF recursive THEN "sizeRecursive" ELSE "size", r, "none", "", "entry")
             EXCEPT !.rec = recursive])

\* Mutant of Lock: the mutex is taken whoever owns it
Lock_noExclusion(t) ==
  /\ Inside(t) /\ Top(t).fn \in LockedFns /\ Top(t).pc = "entry"
  /\ mutex' = [mutex EXCEPT ![Top(t).reg] = [owner |-> t, count |-> @.count + 1]]
  /\ stack' = SetTop(t, [Top(t) EXCEPT !.pc = "body"])
  /\ UNCHANGED <<worldVars, last, done>>

\* Mutant of Lock: a plain mutex, which its owner cannot take again
Lock_notRecursive(t) ==
  /\ Inside(t) /\ Top(t).fn \in LockedFns /\ Top(t).pc = "entry"
  /\ mutex[Top(t).reg].owner = NoThread
  /\ mutex' = [mutex EXCEPT ![Top(t).reg] = [owner |-> t, count |-> @.count + 1]]
  /\ stack' = SetTop(t, [Top(t) EXCEPT !.pc = "body"])
  /\ UNCHANGED <<worldVars, last, done>>

\* Lock lock(mutex_) on the recursive mutex: waits while another thread owns it
Lock(t) ==
  /\ Inside(t) /\ Top(t).fn \in LockedFns /\ Top(t).pc = "entry"
  /\ mutex[Top(t).reg].owner \in {NoThread, t}
  /\ mutex' = [mutex EXCEPT ![Top(t).reg] = [owner |-> t, count |-> @.count + 1]]
  /\ stack' = SetTop(t, [Top(t) EXCEPT !.pc = "body"])
  /\ UNCHANGED <<worldVars, last, done>>

\* registerFactory: insert_or_assign under the lock
RegisterFactoryBody(t) ==
  /\ At(t, "registerFactory", "body")
  /\ Store(registerFactory(World, Top(t).reg, Top(t).type, Top(t).f))
  /\ stack' = SetTop(t, [Top(t) EXCEPT !.pc = "exit"])
  /\ UNCHANGED <<last, mutex, done>>

\* The end of getInternal for the store as it is: not found, a holder of another
\* type, or the holder
Resolve(fr) ==
  IF ~Bound(World, fr.reg, getType(fr.type), fr.name)
  THEN [fr EXCEPT !.status = "NotFound", !.pc = "exit"]
  ELSE IF registeredInstances[fr.reg][getType(fr.type)][fr.name].htype = fr.type
  THEN [fr EXCEPT !.ret = Addr(registeredInstances[fr.reg][getType(fr.type)][fr.name]),
                  !.pc = "exit"]
  ELSE [fr EXCEPT !.status = "TypeMismatch", !.pc = "exit"]

\* getInternal: find<T>(name) looks in the store, and on a miss with a factory
\* registered calls createByName<T>(name) with the lock held
FindBody(t) ==
  /\ At(t, "getInternal", "body")
  /\ stack' =
       IF \/ Bound(World, Top(t).reg, getType(Top(t).type), Top(t).name)
          \/ getType(Top(t).type) \notin DOMAIN registeredFactories[Top(t).reg]
       THEN SetTop(t, Resolve(Top(t)))
       ELSE Enter(t, [Top(t) EXCEPT !.pc = "refind"],
                  Frame("createByName", "createByName", Top(t).reg, Top(t).type,
                        Top(t).name, "lookup"))
  /\ UNCHANGED <<worldVars, last, mutex, done>>

\* getInternal: find<T>(name, false) after createByName returned
Refind(t) ==
  /\ At(t, "getInternal", "refind")
  /\ stack' = SetTop(t, Resolve(Top(t)))
  /\ UNCHANGED <<worldVars, last, mutex, done>>

\* Another thread is writing registeredFactories_ of r
FactoriesBeingWritten(t, r) ==
  \E u \in Threads \ {t} : \E fr \in FramesOf(u) :
    fr.fn = "registerFactory" /\ fr.reg = r /\ fr.pc = "body"

\* createByName: registeredFactories_.count / at / any_cast, with no lock taken
\* here; read while another thread writes the map, the outcome is undefined
CreateLookup(t) ==
  /\ At(t, "createByName", "lookup")
  /\ LET r == Top(t).reg
         key == getType(Top(t).type)
     IN \/ /\ key \in DOMAIN registeredFactories[r]
           /\ stack' = SetTop(t,
                IF /\ registeredFactories[r][key].ftype = Top(t).type
                   /\ registeredFactories[r][key].nargs = 0
                THEN [Top(t) EXCEPT !.f = registeredFactories[r][key], !.pc = "invoke"]
                ELSE [Top(t) EXCEPT !.status = "bad_any_cast", !.pc = "exit"])
        \/ /\ key \notin DOMAIN registeredFactories[r]
           /\ stack' =
                IF parent[r] = NoReg
                THEN SetTop(t, [Top(t) EXCEPT !.status = "NotFound", !.pc = "exit"])
                ELSE Enter(t, [Top(t) EXCEPT !.pc = "exit"],
                           Frame("createByName", "createByName", parent[r], Top(t).type,
                                 Top(t).name, "lookup"))
        \/ /\ FactoriesBeingWritten(t, r)
           /\ stack' = SetTop(t, [Top(t) EXCEPT !.status = "undefined", !.pc = "exit"])
  /\ UNCHANGED <<worldVars, last, mutex, done>>

\* The body of the factory calls into the registry it captured
BodyKinds == {"user", "binds", "gets", "creates", "sizes"}
CallsOut(f) == f.maker \in BodyKinds /\ f.owner # NoReg
\* The call the body of factory f makes when invoked for the name n of type T
BodyCall(f, T, n) ==
  IF f.maker = "binds" THEN Frame("bindInstanceInternal", "bindInstance", f.owner, "B", n, "entry")
  ELSE IF f.maker = "gets" THEN Frame("getInternal", "getPtr", f.owner, "B", n, "entry")
  ELSE IF f.maker = "creates" THEN Frame("createByName", "createByName", f.owner, "B", n, "lookup")
  ELSE IF f.maker = "sizes" THEN Frame("size", "size", f.owner, "none", "", "entry")
  ELSE Frame("contains", "contains", f.owner, T, n, "entry")
FactoryCallsOut(t) ==
  /\ At(t, "createByName", "invoke")
  /\ CallsOut(Top(t).f)
  /\ stack' = Enter(t, [Top(t) EXCEPT !.pc = "construct"],
                    BodyCall(Top(t).f, Top(t).type, Top(t).name))
  /\ UNCHANGED <<worldVars, last, mutex, done>>

\* The addresses the products of factories that are not bound yet will have
Reserved(kind) ==
  {fr.fresh : fr \in {x \in UNION {FramesOf(u) : u \in Threads} :
                        /\ x.fn = "bindInstanceInternal"
                        /\ ProductKind(getType(x.type)) = kind}}
FreeFor(key) ==
  IF ProductKind(key) = "reg" THEN Regs \ (alive \cup Reserved("reg"))
  ELSE ObjIds \ (DOMAIN heap \cup Reserved("val"))

\* createByName: factory(args...) makes the product (or throws), then
\* bindInstance(name, std::move(inst))
Construct(t) ==
  /\ Inside(t) /\ Top(t).fn = "createByName"
  /\ \/ Top(t).pc = "construct"
     \/ Top(t).pc = "invoke" /\ ~CallsOut(Top(t).f)
  /\ IF Top(t).f.tag = Throws
     THEN stack' = SetTop(t, [Top(t) EXCEPT !.status = "factory_error", !.made = @ + 1,
                                            !.pc = "exit"])
     ELSE IF FreeFor(getType(Top(t).type)) = {}
     THEN stack' = SetTop(t, [Top(t) EXCEPT !.status = "nomem", !.pc = "exit"])
     ELSE \E fresh \in FreeFor(getType(Top(t).type)) :
            stack' = Enter(t, [Top(t) EXCEPT !.made = @ + 1, !.pc = "exit"],
                           [Frame("bindInstanceInternal", "bindInstance", Top(t).reg,
                                  Top(t).type, Top(t).name, "entry")
                              EXCEPT !.f = Top(t).f, !.fresh = fresh])
  /\ UNCHANGED <<worldVars, last, mutex, done>>

\* bindInstanceInternal: insert_or_assign of the holder under the lock; the
\* holder is the product of the factory f, or the caller's d bound by reference
BindBody(t) ==
  /\ At(t, "bindInstanceInternal", "body")
  /\ IF Top(t).f = NoFactory
     THEN Store(bindInstanceInternal(World, Top(t).reg, Top(t).type, Top(t).name,
                  Holder(Top(t).type, "ext", ExtD, "borrowed")))
     ELSE Store(bindInstanceInternal(
             Invoke(World, Top(t).f, getType(Top(t).type), Top(t).fresh),
             Top(t).reg, Top(t).type, Top(t).name,
             Holder(Top(t).type, ProductKind(getType(Top(t).type)), Top(t).fresh,
                    IF Top(t).f.shape = "shared" THEN "shared" ELSE "owned")))
  /\ stack' = SetTop(t, [Top(t) EXCEPT !.pc = "exit"])
  /\ UNCHANGED <<last, mutex, done>>

\* size: the entries of this registry are counted under its lock
SizeCount(t) ==
  /\ At(t, "size", "body")
  /\ stack' = SetTop(t, [Top(t) EXCEPT
         !.acc = size(World, Top(t).reg, FALSE, 0),
         !.todo = IF Top(t).rec /\ "IocContainer" \in DOMAIN registeredInstances[Top(t).reg]
                  THEN DOMAIN registeredInstances[Top(t).reg]["IocContainer"] ELSE {},
         !.pc = "children"])
  /\ UNCHANGED <<worldVars, last, mutex, done>>

\* size: item->size(recursive) for the next bound registry, the lock still held
SizeChild(t) ==
  /\ At(t, "size", "children")
  /\ \E n \in Top(t).todo :
       stack' = Enter(t, [Top(t) EXCEPT !.todo = @ \ {n}],
                      [Frame("size", "sizeRecursive",
                             registeredInstances[Top(t).reg]["IocContainer"][n].id,
                             "none", "", "entry") EXCEPT !.rec = TRUE])
  /\ UNCHANGED <<worldVars, last, mutex, done>>

SizeDone(t) ==
  /\ At(t, "size", "children")
  /\ Top(t).todo = {}
  /\ stack' = SetTop(t, [Top(t) EXCEPT !.ret = <<"count", Top(t).acc>>, !.pc = "exit"])
  /\ UNCHANGED <<worldVars, last, mutex, done>>

\* contains under the lock
ContainsBody(t) ==
  /\ At(t, "contains", "body")
  /\ stack' = SetTop(t, [Top(t) EXCEPT
         !.ret = <<"bool", IF contains(World, Top(t).reg, Top(t).type, Top(t).name)
                           THEN 1 ELSE 0>>,
         !.pc = "exit"])
  /\ UNCHANGED <<worldVars, last, mutex, done>>

\* The caller goes on after the callee sub returned, or unwinds when it threw
Resume(caller, sub) ==
  IF sub.status # "ok"
  THEN [caller EXCEPT !.status = sub.status, !.made = @ + sub.made, !.pc = "exit"]
  ELSE IF sub.fn = "size" THEN [caller EXCEPT !.acc = @ + sub.ret[2]]
  ELSE [caller EXCEPT !.made = @ + sub.made]

\* The end of a function: its Lock goes out of scope and the caller goes on; the
\* end of the outermost one is the end of the thread's call
Return(t) ==
  /\ Inside(t) /\ Top(t).pc = "exit"
  /\ mutex' = IF Top(t).fn \notin LockedFns THEN mutex
              ELSE [mutex EXCEPT ![Top(t).reg] =
                      IF @.count <= 1 THEN [owner |-> NoThread, count |-> 0]
                      ELSE [@ EXCEPT !.count = @ - 1]]
  /\ IF Len(stack[t]) = 1
     THEN /\ stack' = [stack EXCEPT ![t] = <<>>]
          /\ done' = [done EXCEPT ![t] =
                        Last(Top(t).op, Top(t).reg, Top(t).type, Top(t).name,
                             Top(t).status, Top(t).ret, Top(t).made)]
     ELSE /\ stack' = [stack EXCEPT ![t] =
                         Append(SubSeq(stack[t], 1, Len(stack[t]) - 2),
                                Resume(stack[t][Len(stack[t]) - 1], Top(t)))]
          /\ UNCHANGED done
  /\ UNCHANGED <<worldVars, last>>

\* One registry used as a typed store with factories: the caller binds values and
\* its object d, registers factories for A and retrieves
StoreTypes == {"A", "constA", "B"}
Next ==
  \E n \in Names :
    \/ \E v \in Values : BindValue(Root, "A", n, v)
    \/ \E T \in {"A", "B"} : BindRef(Root, T, n)
    \/ \E shape \in {"unique", "shared"} :
          n = "" /\ RegisterFactory(Root, "A", shape, 0, IF shape = "unique" THEN 1 ELSE 2)
    \/ \E T \in {"A", "B"} : EraseInstance(Root, T, n)
    \/ Get(Root, "A", n)
    \/ \E T \in StoreTypes : GetPtr(Root, T, n)
    \/ \E T \in {"A", "B"} : GetRef(Root, T, n)
    \/ GetShared(Root, "A", n)
    \/ \E T \in StoreTypes : Contains(Root, T, n)
    \/ n = "" /\ Size(Root, FALSE)

Spec == Init /\ [][Next]_vars

\* A tree of registries: children made by the factory of child registries, the
\* caller's d bound by reference, a factory for A, the root bound by reference
NextTree ==
  \E r \in alive :
    \/ BindRef(r, "A", "")
    \/ RegisterFactory(r, "A", "unique", 0, 1)
    \/ \E n \in Names : EraseInstance(r, "IocContainer", n)
    \/ Get(r, "A", "")
    \/ GetPtr(r, "A", "")
    \/ \E n \in Names : GetRef(r, "IocContainer", n)
    \/ \E recursive \in BOOLEAN : Size(r, recursive)

SpecTree == Init /\ [][NextTree]_vars

\* The creates on a registry and its child: factories for A of both shapes, with
\* or without an argument, or with a body that throws
FactoryChoices == {<<"unique", 0, 1>>, <<"shared", 0, 2>>, <<"unique", 1, 1>>,
                   <<"unique", 0, Throws>>}
NextCreate ==
  \E r \in alive :
    \/ \E c \in FactoryChoices : RegisterFactory(r, "A", c[1], c[2], c[3])
    \/ \E nargs \in {0, 1} : CreateByName(r, "A", "", nargs)
    \/ \E nargs \in {0, 1} : CreateByNameWithoutStoring(r, "A", "", nargs)
    \/ \E nargs \in {0, 1} : CreateByNameWithoutStoringShared(r, "A", "", nargs)
    \/ GetRef(r, "A", "")
    \/ r = Root /\ GetRef(r, "IocContainer", "")
    \/ EraseInstance(r, "A", "")

SpecCreate == Init /\ [][NextCreate]_vars

\* Threads that register factories for A in the root and retrieve A from it
NextRetrieve ==
  \E t \in Threads :
    \/ \E shape \in {"unique", "shared"} :
         CallRegisterFactory(t, Root, "A",
           FactoryDesc(shape, "A", 0, "user", NoReg, IF shape = "unique" THEN 1 ELSE 2))
    \/ \E op \in {"getPtr", "getRef", "getShared"} : CallRetrieve(t, op, Root, "A", "")
    \/ Lock(t)
    \/ RegisterFactoryBody(t)
    \/ FindBody(t)
    \/ Refind(t)
    \/ CreateLookup(t)
    \/ Construct(t)
    \/ BindBody(t)
    \/ Return(t)

SpecRetrieve == Init /\ [][NextRetrieve]_vars

\* Threads on the registries of one tree: child registries are made by
\* retrieval, factories for A are registered whose body may ask the parent of
\* their registry, A is retrieved and created, the tree is counted
NextThreads ==
  \E t \in Threads :
    \/ \E r \in alive : \E calls \in {NoReg, parent[r]} :
         CallRegisterFactory(t, r, "A", FactoryDesc("unique", "A", 0, "user", calls, 1))
    \/ \E r \in alive : CallRetrieve(t, "getPtr", r, "A", "")
    \/ CallRetrieve(t, "getRef", Root, "IocContainer", "")
    \/ \E r \in alive : CallCreateByName(t, r, "A", "")
    \/ CallSize(t, Root, TRUE)
    \/ Lock(t)
    \/ RegisterFactoryBody(t)
    \/ FindBody(t)
    \/ Refind(t)
    \/ CreateLookup(t)
    \/ FactoryCallsOut(t)
    \/ Construct(t)
    \/ BindBody(t)
    \/ SizeCount(t)
    \/ SizeChild(t)
    \/ SizeDone(t)
    \/ ContainsBody(t)
    \/ Return(t)

SpecThreads == Init /\ [][NextThreads]_vars

\* Threads that retrieve A from the root, whose factory for A has a body that
\* calls back into the root for the key of B: bind, get, contains, create,
\* size; the first thread is the one that registers the factories
NextReentrant ==
  \E t \in Threads :
    \/ \E body \in BodyKinds :
         /\ t = 1
         /\ CallRegisterFactory(t, Root, "A", FactoryDesc("unique", "A", 0, body, Root, 1))
    \/ /\ t = 1
       /\ CallRegisterFactory(t, Root, "B", FactoryDesc("unique", "B", 0, "user", NoReg, 2))
    \/ CallRetrieve(t, "getPtr", Root, "A", "")
    \/ Lock(t)
    \/ RegisterFactoryBody(t)
    \/ FindBody(t)
    \/ Refind(t)
    \/ CreateLookup(t)
    \/ FactoryCallsOut(t)
    \/ Construct(t)
    \/ BindBody(t)
    \/ SizeCount(t)
    \/ SizeDone(t)
    \/ ContainsBody(t)
    \/ Return(t)

SpecReentrant == Init /\ [][NextReentrant]_vars

\* Child registries asked for by name on any registry of the tree, given
\* contents (the caller's d bound by reference), removed from the root, counted
NextChildren ==
  \E r \in alive :
    \/ \E n \in Names : GetRef(r, "IocContainer", n)
    \/ BindRef(r, "A", "")
    \/ \E n \in Names : r = Root /\ EraseInstance(r, "IocContainer", n)
    \/ \E recursive \in BOOLEAN : Size(r, recursive)

SpecChildren == Init /\ [][NextChildren]_vars

\* make_unique<IocContainer>() returned the lowest unused registry: which of
\* the unused, interchangeable ones it returns changes nothing but the number
LowestRegistry == \A c \in alive' \ alive : \A q \in Regs \ alive : c <= q

\* Registries with child registries under both names, the caller's d bound in
\* them, a factory for A in the root, and the two sizes of each
NextSizes ==
  \E r \in alive :
    \/ \E n \in Names : GetRef(r, "IocContainer", n) /\ LowestRegistry
    \/ \E n \in Names : EraseInstance(r, "IocContainer", n)
    \/ BindRef(r, "A", "")
    \/ r = Root /\ RegisterFactory(r, "A", "unique", 0, 1)
    \/ \E recursive \in BOOLEAN : Size(r, recursive)
SpecSizes == Init /\ [][NextSizes]_vars

\* One caller binds values it hands over, values it shares and its own object
\* d in the root and in child registries, keeps and drops shared handles,
\* rebinds, erases and destroys the children
NextOwnership ==
  \/ \E r \in alive :
       \/ BindValue(r, "A", "", 1)
       \/ KeepShared(r, "A", "")
       \/ parent[r] \in {NoReg, Root} /\
            \/ BindShared(r, "A", "", 2)
            \/ BindRef(r, "A", "")
            \/ EraseInstance(r, "A", "")
            \/ GetRef(r, "IocContainer", "") /\ LowestRegistry
            \/ EraseInstance(r, "IocContainer", "")
  \/ BindValue(Root, "A", "", 2)
  \/ BindUnique(Root, "A", "", 1)
  \/ BindPtr(Root, "A", "")
  \/ GetPtr(Root, "A", "")
  \/ GetRef(Root, "A", "")
  \/ \E o \in ObjIds : ResetHandle(o)
SpecOwnership == Init /\ [][NextOwnership]_vars

\* One caller on the root: factories for A of both shapes or with a body that
\* throws, every retrieval of A under both names, the create that stores
\* nothing, erase, the caller's d bound under A, and a shared handle the
\* caller keeps from getShared<A>("")
CachingFactories == {<<"unique", 1>>, <<"shared", 2>>, <<"unique", Throws>>}
NextCaching ==
  \/ \E c \in CachingFactories : RegisterFactory(Root, "A", c[1], 0, c[2])
  \/ \E n \in Names :
       \/ Get(Root, "A", n)
       \/ GetPtr(Root, "A", n)
       \/ GetRef(Root, "A", n)
       \/ GetShared(Root, "A", n)
       \/ CreateByNameWithoutStoring(Root, "A", n, 0)
       \/ EraseInstance(Root, "A", n)
       \/ BindRef(Root, "A", n)
  \/ KeepShared(Root, "A", "")
  \/ \E o \in ObjIds : ResetHandle(o)
SpecCaching == Init /\ [][NextCaching]_vars

\* One caller on the root and a child of it: every kind of operation on the
\* key of A under both names, and the child made and erased
NextStore ==
  \/ \E r \in alive : \E n \in Names :
       \/ BindValue(r, "A", n, 1)
       \/ CreateByName(r, "A", n, 0)
       \/ GetPtr(r, "A", n)
       \/ Contains(r, "A", n)
       \/ EraseInstance(r, "A", n)
  \/ \E r \in alive :
       \/ RegisterFactory(r, "A", "unique", 0, 2)
       \/ CreateByNameWithoutStoring(r, "A", "", 0)
       \/ \E recursive \in BOOLEAN : Size(r, recursive)
  \/ GetRef(Root, "IocContainer", "") /\ LowestRegistry
  \/ EraseInstance(Root, "IocContainer", "")
SpecStore == Init /\ [][NextStore]_vars

\* The caller moves its registries, by construction and by assignment, makes
\* child registries in every registry before and after, binds d, counts
NextMove ==
  \/ \E src \in callerRegs : MoveConstruct(src) /\ LowestRegistry
  \/ \E dst \in callerRegs : \E src \in callerRegs : MoveAssign(dst, src)
  \/ \E r \in alive :
       \/ GetRef(r, "IocContainer", "") /\ LowestRegistry
       \/ EraseInstance(r, "IocContainer", "")
       \/ BindRef(r, "A", "")
       \/ EraseInstance(r, "A", "")
       \/ \E recursive \in BOOLEAN : Size(r, recursive)
SpecMove == Init /\ [][NextMove]_vars

\* Registration over factories that are there: the caller's factories of A
\* differ in the instance they make, the caller's factory of registries takes
\* the place of the one the constructor registered
NextFactories ==
  \/ \E tag \in Values : RegisterFactory(Root, "A", "unique", 0, tag)
  \/ RegisterFactory(Root, "IocContainer", "unique", 0, 2)
  \/ \E n \in Names : GetPtr(Root, "A", n)
  \/ \E n \in Names : CreateByName(Root, "A", n, 0)
  \/ \E n \in Names : EraseInstance(Root, "A", n)
  \/ \E n \in Names : GetRef(Root, "IocContainer", n) /\ LowestRegistry
  \/ \E n \in Names : EraseInstance(Root, "IocContainer", n)
  \/ \E recursive \in BOOLEAN : Size(Root, recursive)
SpecFactories == Init /\ [][NextFactories]_vars

\* Registries bound by reference under a registry of their own tree, with the
\* counts taken over them
NextCycles ==
  \/ \E r \in alive : \E n \in Names : BindRegistryRef(r, n)
  \/ \E r \in alive : GetRef(r, "IocContainer", "") /\ LowestRegistry
  \/ \E r \in alive : \E n \in Names : EraseInstance(r, "IocContainer", n)
  \/ BindValue(Root, "A", "", 1)
  \/ \E r \in alive : \E recursive \in BOOLEAN : Size(r, recursive)
SpecCycles == Init /\ [][NextCycles]_vars

\* ------------------------------------------------------------------- claims
\* The (key, name) pairs bound in registry r of a store
EntriesOf(inst, r) ==
  UNION {{<<k, n>> : n \in DOMAIN inst[r][k]} : k \in DOMAIN inst[r]}
Retrievals == {"getPtr", "getRef", "getShared"}
\* The next call is made on the registry, type and name of the last one
SameKey == /\ last'.reg = last.reg
           /\ last'.type = last.type
           /\ last'.name = last.name

\* C1: after bindValue<T>(n, v), get<T>(n) returns v; a second bindValue<T>(n, v2)
\* on the same key leaves size() as it was after the first and get<T>(n) then
\* returns v2 (the value of the latest bind).
C1_BindValueThenGet ==
  [][/\ (last.op = "bindValue" /\ last'.op = "get" /\ SameKey)
          => (last'.status = "ok" /\ last'.ret = last.ret)
     /\ (last.op = "bindValue" /\ last'.op = "bindValue" /\ SameKey)
          => /\ Cardinality(EntriesOf(registeredInstances', last.reg))
                  = Cardinality(EntriesOf(registeredInstances, last.reg))
             /\ Deref(World', registeredInstances'[last.reg][getType(last.type)][last.name])
                  = last'.ret[2]]_vars

\* C1 witness: a get that returned the value 2 of an owned object, which only
\* bindValue<A>(n, 2) makes (the unique-shape factory's products hold 1)
C1_Witness ==
  /\ last.op = "get" /\ last.status = "ok" /\ last.ret = <<"value", 2>>
  /\ registeredInstances[last.reg]["A"][last.name].kind = "val"
  /\ registeredInstances[last.reg]["A"][last.name].own = "owned"

\* C2: with a zero-argument factory for T (either shape) and nothing bound at
\* (T, n), getPtr<T>(n) invokes the factory once, binds the new object, which is
\* distinct from every object bound before (so also from the one of another name),
\* and size() grows by 1; with (T, n) bound, getPtr<T>(n) returns the bound
\* object again, invokes no factory and leaves size() unchanged.
C2_FactoryMemoization ==
  [][(last'.op = "getPtr") =>
       LET r == last'.reg
           T == last'.type
           n == last'.name
           key == getType(T)
           before == Cardinality(EntriesOf(registeredInstances, r))
           after == Cardinality(EntriesOf(registeredInstances', r))
       IN /\ (/\ ~Bound(World, r, key, n)
               /\ key \in DOMAIN registeredFactories[r]
               /\ registeredFactories[r][key].ftype = T
               /\ registeredFactories[r][key].nargs = 0)
               => /\ last'.status = "ok" /\ last'.made = 1
                  /\ after = before + 1
                  /\ last'.ret = Addr(registeredInstances'[r][key][n])
                  /\ \A h \in HoldersOf(World, r) : Addr(h) # last'.ret
          /\ (Bound(World, r, key, n) /\ last'.status = "ok")
               => /\ last'.ret = Addr(registeredInstances[r][key][n])
                  /\ last'.made = 0
                  /\ after = before
                  /\ registeredInstances' = registeredInstances]_vars

\* C2 witness: getPtr returned an object made by the shared-shape factory while
\* the other name holds a distinct object
C2_Witness ==
  /\ last.op = "getPtr" /\ last.status = "ok" /\ last.made = 1
  /\ Cardinality(EntriesOf(registeredInstances, last.reg)) = 2
  /\ registeredInstances[last.reg]["A"][last.name].own = "shared"

\* C3: after a successful getPtr/getRef/getShared<T>(n), each of the three on the
\* same key succeeds with the same address, invokes no factory and leaves the
\* store (hence size()) and the heap unchanged.
C3_SameObjectAllRetrievals ==
  [][(/\ last.op \in Retrievals /\ last.status = "ok"
      /\ last'.op \in Retrievals /\ SameKey)
       => /\ last'.status = "ok"
          /\ last'.ret = last.ret
          /\ last'.made = 0
          /\ registeredInstances' = registeredInstances
          /\ heap' = heap]_vars

\* C3 witness: getShared returned the factory-made object that getPtr created
C3_Witness ==
  /\ last.op = "getShared" /\ last.status = "ok" /\ last.made = 0
  /\ last.ret[1] = "val"
  /\ registeredInstances[last.reg]["A"][last.name].own = "shared"

\* The registries from r up through every ancestor
RECURSIVE Chain(_, _)
Chain(w, r) == IF r = NoReg THEN {} ELSE {r} \cup Chain(w, w.par[r])

\* C4: a child registry with no binding and no factory for T resolves get<T>(n)
\* when its parent holds a binding at (T, n), returning the parent's object, and
\* the child's own store stays without (T, n).
C4_ParentFallback ==
  (/\ last.op = "get"
   /\ parent[last.reg] # NoReg
   /\ ~contains(World, last.reg, last.type, last.name)
   /\ Bound(World, parent[last.reg], getType(last.type), last.name)
   /\ registeredInstances[parent[last.reg]][getType(last.type)][last.name].htype = last.type)
    => /\ last.status = "ok"
       /\ last.ret = <<"value", Deref(World,
              registeredInstances[parent[last.reg]][getType(last.type)][last.name])>>

\* C5: a retrieval fails with NotFound only when no registry from the called one
\* up through every ancestor has a binding at (T, n) or a factory for T.
\* In particular a child with neither, whose parent has a zero-argument factory
\* for T, succeeds and the instance is cached in the parent.
C5_NotFoundOnlyIfChainEmpty ==
  LET r == last.reg
      key == getType(last.type)
  IN (last.op \in Retrievals \cup {"get"})
      => /\ (last.status = "NotFound")
              => \A a \in Chain(World, r) : ~contains(World, a, last.type, last.name)
         /\ (/\ ~contains(World, r, last.type, last.name)
             /\ parent[r] # NoReg
             /\ key \in DOMAIN registeredFactories[parent[r]]
             /\ registeredFactories[parent[r]][key].ftype = last.type
             /\ registeredFactories[parent[r]][key].nargs = 0)
              => (last.status = "ok" /\ Bound(World, parent[r], key, last.name))

\* The holder in a slot of a store, NoHolder for an empty slot
Slot(inst, r, key, n) ==
  IF key \in DOMAIN inst[r] /\ n \in DOMAIN inst[r][key] THEN inst[r][key][n]
  ELSE NoHolder
\* The other name of the two
Other(n) == CHOOSE m \in Names : m # n
Binders == {"bindValue", "bindRef", "eraseInstance"}

\* C6 as the spec states it: the slots (T, "a") and (T, "") are independent, and
\* contains<T>("a") is false as long as (T, "a") is not bound, even when
\* contains<T>("") is true.
C6_NamedUnnamedIndependent ==
  [][/\ (last'.op \in Binders)
          => Slot(registeredInstances', last'.reg, getType(last'.type), Other(last'.name))
               = Slot(registeredInstances, last'.reg, getType(last'.type), Other(last'.name))
     /\ (/\ last'.op = "contains" /\ last'.name = "a"
         /\ ~Bound(World', last'.reg, getType(last'.type), "a"))
          => last'.ret = <<"bool", 0>>]_vars

\* C6 amended: the slots (T, "a") and (T, "") are independent: binding or erasing
\* one leaves the holder of the other unchanged; and contains<T>("a") is false as
\* long as (T, "a") is not bound and no factory for T is registered in the
\* registry, even when contains<T>("") is true.
C6_IndependentUnlessFactory ==
  [][/\ (last'.op \in Binders)
          => Slot(registeredInstances', last'.reg, getType(last'.type), Other(last'.name))
               = Slot(registeredInstances, last'.reg, getType(last'.type), Other(last'.name))
     /\ (/\ last'.op = "contains" /\ last'.name = "a"
         /\ ~Bound(World', last'.reg, getType(last'.type), "a")
         /\ getType(last'.type) \notin DOMAIN registeredFactories'[last'.reg])
          => last'.ret = <<"bool", 0>>]_vars

\* C6 witness: contains<T>("a") answered false while (T, "") is bound
C6_Witness ==
  /\ last.op = "contains" /\ last.name = "a" /\ last.ret = <<"bool", 0>>
  /\ Bound(World, last.reg, getType(last.type), "")

\* What eraseInstance<T>(n) leaves alone: every other slot and the values
EraseFrame(r, key, n) ==
  /\ \A k \in {"A", "B", "IocContainer"}, m \in Names :
        <<k, m>> # <<key, n>>
          => Slot(registeredInstances', r, k, m) = Slot(registeredInstances, r, k, m)
  /\ \A o \in DOMAIN heap' : heap'[o] = heap[o]
  /\ registeredFactories' = registeredFactories

\* C7 as the spec states it: eraseInstance<T>(n) removes exactly (T, n); after
\* erasing the only entry of type T, contains<T>(n) is false.
C7_EraseThenNotContained ==
  [][(last'.op = "eraseInstance") =>
       LET r == last'.reg
           key == getType(last'.type)
           n == last'.name
       IN /\ EraseFrame(r, key, n)
          /\ ~Bound(World', r, key, n)
          /\ (Bound(World, r, key, n) /\ DOMAIN registeredInstances[r][key] = {n})
               => ~contains(World', r, last'.type, n)]_vars

\* C7 amended: eraseInstance<T>(n) removes exactly the entry (T, n) and nothing
\* else: after erasing the only entry of type T the type has no name-map left,
\* the entry no longer counts in size(), and contains<T>(n) is false unless a
\* factory for T is registered (then it stays true); every other bound entry
\* keeps its holder and value, and erasing an absent key changes nothing.
C7_EraseExactlyOne ==
  [][(last'.op = "eraseInstance") =>
       LET r == last'.reg
           key == getType(last'.type)
           n == last'.name
           before == Cardinality(EntriesOf(registeredInstances, r))
           after == Cardinality(EntriesOf(registeredInstances', r))
       IN /\ EraseFrame(r, key, n)
          /\ ~Bound(World', r, key, n)
          /\ contains(World', r, last'.type, n) = (key \in DOMAIN registeredFactories[r])
          /\ IF Bound(World, r, key, n)
             THEN /\ after = before - 1
                  /\ (DOMAIN registeredInstances[r][key] = {n})
                       => key \notin DOMAIN registeredInstances'[r]
             ELSE /\ registeredInstances' = registeredInstances
                  /\ heap' = heap]_vars

\* C7 witness: an erase left the type without entries while another entry stays
C7_Witness ==
  /\ last.op = "eraseInstance"
  /\ getType(last.type) \notin DOMAIN registeredInstances[last.reg]
  /\ getType(last.type) \notin DOMAIN registeredFactories[last.reg]
  /\ EntriesOf(registeredInstances, last.reg) # {}

\* C8: bindInstance<A>(n, ref(d)) for d of the derived type B creates an entry
\* only under the key of A: contains<A>(n) becomes true, the name-map of B and
\* contains<B>(n) are as before (false when B had neither entry nor factory), and
\* a following getRef<A>(n) designates d itself.
C8_UpcastBinding ==
  [][/\ (last'.op = "bindRef" /\ last'.type = "A") =>
          LET r == last'.reg
              n == last'.name
          IN /\ Slot(registeredInstances', r, "A", n) = Holder("A", "ext", ExtD, "borrowed")
             /\ contains(World', r, "A", n)
             /\ \A m \in Names :
                  Slot(registeredInstances', r, "B", m) = Slot(registeredInstances, r, "B", m)
             /\ contains(World', r, "B", n) = contains(World, r, "B", n)
             /\ (~Bound(World, r, "B", n) /\ "B" \notin DOMAIN registeredFactories[r])
                  => ~contains(World', r, "B", n)
     /\ (last.op = "bindRef" /\ last.type = "A" /\ last'.op = "getRef" /\ SameKey)
          => (last'.status = "ok" /\ last'.ret = <<"ext", ExtD>>)]_vars

\* C8 witness: getRef<A>(n) gave d while B has no entry under that name
C8_Witness ==
  /\ last.op = "getRef" /\ last.type = "A" /\ last.ret = <<"ext", ExtD>>
  /\ ~contains(World, last.reg, "B", last.name)
  /\ registeredInstances[last.reg]["A"][last.name].kind = "ext"

\* The registries bound (by any holder) in the store of r, one per entry
RegistryEntries(r) ==
  IF "IocContainer" \in DOMAIN registeredInstances[r]
  THEN [n \in DOMAIN registeredInstances[r]["IocContainer"] |->
          size(World, registeredInstances[r]["IocContainer"][n].id, TRUE, 0)]
  ELSE EmptyMap

\* C9: size(false) is the number of bound (TypeKey, Name) entries of the
\* registry, factories not counted; size(true), when it returns, is size(false)
\* plus the sum of size(true) of every registry bound in this one.
C9_SizeCountsEntries ==
  /\ (last.op = "size")
       => last.ret = <<"count", Cardinality(EntriesOf(registeredInstances, last.reg))>>
  /\ (last.op = "sizeRecursive")
       => last.ret = <<"count", Cardinality(EntriesOf(registeredInstances, last.reg))
                                 + SumMap(RegistryEntries(last.reg))>>

\* C9 witness: a recursive size that counted entries of a bound child registry
\* in a registry that also has a factory for A
C9_Witness ==
  /\ last.op = "sizeRecursive"
  /\ last.ret[2] > Cardinality(EntriesOf(registeredInstances, last.reg))
  /\ "A" \in DOMAIN registeredFactories[last.reg]

\* C10: contains<T>(n) answers true exactly when the registry has a binding at
\* (T, n) or a factory for T, invokes no factory and leaves the store, the
\* factories, the heap and the set of registries as they were.
C10_ContainsIsPure ==
  [][(last'.op = "contains") =>
       LET r == last'.reg
           key == getType(last'.type)
       IN /\ last'.ret = <<"bool", IF \/ <<key, last'.name>> \in EntriesOf(registeredInstances, r)
                                      \/ key \in DOMAIN registeredFactories[r]
                                   THEN 1 ELSE 0>>
          /\ last'.made = 0
          /\ UNCHANGED <<registeredInstances, registeredFactories, parent, alive, heap>>]_vars

\* C10 witness: contains answered true for a key that only a factory can serve,
\* and the key is still unbound
C10_Witness ==
  /\ last.op = "contains" /\ last.ret = <<"bool", 1>>
  /\ ~Bound(World, last.reg, getType(last.type), last.name)

\* The calls that retrieve or create
CallOps == Retrievals \cup {"get", "createByName"} \cup NonCaching
\* Registry r has a factory for T that takes nargs arguments and returns
FitsCall(fact, r, T, nargs) ==
  /\ getType(T) \in DOMAIN fact[r]
  /\ fact[r][getType(T)].ftype = T
  /\ fact[r][getType(T)].nargs = nargs
  /\ fact[r][getType(T)].tag # Throws
\* The addresses held by any registry of a world
HeldAddrs(w) == {Addr(h) : h \in UNION {HoldersOf(w, a) : a \in w.alive}}

\* C11: createByName<T>(n, args) on a registry with a factory for T taking these
\* arguments invokes the factory even when (T, n) is bound and stores the new
\* instance at (T, n) of that registry in place of any binding: size() grows by
\* 1 if the key was absent and is unchanged otherwise, and a following
\* getRef<T>(n) yields the instance that is stored there.
C11_CreateOverwrites ==
  [][/\ (/\ last'.op = "createByName"
          /\ FitsCall(registeredFactories, last'.reg, last'.type, last'.nargs))
          => LET r == last'.reg
                 key == getType(last'.type)
                 n == last'.name
             IN /\ last'.status = "ok" /\ last'.made = 1
                /\ Bound(World', r, key, n)
                /\ Addr(Slot(registeredInstances', r, key, n)) \notin HeldAddrs(World)
                /\ size(World', r, FALSE, 0)
                     = size(World, r, FALSE, 0) + IF Bound(World, r, key, n) THEN 0 ELSE 1
     /\ (/\ last.op = "createByName" /\ last.status = "ok"
         /\ getType(last.type) \in DOMAIN registeredFactories[last.reg]
         /\ last'.op = "getRef" /\ SameKey)
          => /\ last'.status = "ok" /\ last'.made = 0
             /\ last'.ret = Addr(Slot(registeredInstances, last.reg, getType(last.type),
                                      last.name))]_vars

\* C11 witness: createByName with an argument stored a product of the factory in
\* the child registry
C11_Witness ==
  /\ last.op = "createByName" /\ last.status = "ok" /\ last.nargs = 1
  /\ last.reg # Root
  /\ Bound(World, last.reg, getType(last.type), last.name)

\* C12: no operation called on a child registry changes the bindings or the
\* factories of its parent, createByName on a child without a factory for T
\* included.
C12_ChildNeverMutatesParent ==
  [][(parent[last'.reg] # NoReg)
       => /\ registeredInstances'[parent[last'.reg]] = registeredInstances[parent[last'.reg]]
          /\ registeredFactories'[parent[last'.reg]] = registeredFactories[parent[last'.reg]]]_vars

\* C13: createByNameWithoutStoring and createByNameWithoutStoringShared leave
\* the bindings, size() and contains of every registry as they were, bound key
\* or not; a factory that fits the call is invoked on every call, and the
\* instance returned is none of those held by a registry nor the one the
\* previous such call returned.
C13_NonCachingNeverStores ==
  [][(last'.op \in NonCaching) =>
       /\ UNCHANGED <<registeredInstances, registeredFactories, parent, alive, heap>>
       /\ \A a \in alive :
            /\ size(World', a, FALSE, 0) = size(World, a, FALSE, 0)
            /\ \A T \in Types, n \in Names : contains(World', a, T, n) = contains(World, a, T, n)
       /\ (last'.status = "ok")
            => /\ last'.made = 1
               /\ last'.ret \notin HeldAddrs(World')
               /\ (last.op \in NonCaching /\ last.status = "ok") => last'.ret # last.ret
       /\ (/\ FitsCall(registeredFactories, last'.reg, last'.type, last'.nargs)
           /\ \/ last'.op = "createByNameWithoutStoringShared"
              \/ registeredFactories[last'.reg][getType(last'.type)].shape = "unique")
            => last'.status = "ok"]_vars

\* C13 witness: a non-storing create returned an instance of a shared factory
\* while its key is bound to an instance an owned-shape factory had made
C13_Witness ==
  /\ last.op = "createByNameWithoutStoringShared" /\ last.status = "ok"
  /\ Bound(World, last.reg, getType(last.type), last.name)
  /\ registeredInstances[last.reg][getType(last.type)][last.name].own = "owned"
  /\ registeredFactories[last.reg][getType(last.type)].shape = "shared"

\* The status of a call on registry r of world w
CallStatus(w, op, r, T, n, nargs, fresh) ==
  IF op = "createByName" THEN createByName(w, r, T, n, nargs, fresh).status
  ELSE IF op = "createByNameWithoutStoring"
  THEN createByNameWithoutStoring(w, r, T, n, nargs, fresh).status
  ELSE IF op = "createByNameWithoutStoringShared"
  THEN createByNameWithoutStoringShared(w, r, T, n, nargs, fresh).status
  ELSE getInternal(w, r, T, n, fresh).status

\* C14: on a registry without a factory for T that has a parent, a non-storing
\* create ends as the same call made on the parent ends; so
\* createByNameWithoutStoringShared on the child succeeds whenever it succeeds
\* on the parent.
C14_NonCachingDelegates ==
  [][(/\ last'.op \in NonCaching
      /\ parent[last'.reg] # NoReg
      /\ getType(last'.type) \notin DOMAIN registeredFactories[last'.reg])
       => \A fresh \in ObjIds \ DOMAIN heap :
            last'.status = CallStatus(World, last'.op, parent[last'.reg], last'.type,
                                      last'.name, last'.nargs, fresh)]_vars

\* C15: createByNameWithoutStoring against a factory of the shared shape is an
\* IocException: no factory is invoked, nothing is returned and the store is
\* unchanged; createByNameWithoutStoringShared against a factory of the owned
\* shape that fits the call succeeds with a new instance.
C15_WrongModeIsReported ==
  [][/\ (/\ last'.op = "createByNameWithoutStoring"
          /\ getType(last'.type) \in DOMAIN registeredFactories[last'.reg]
          /\ registeredFactories[last'.reg][getType(last'.type)].shape = "shared")
          => /\ last'.status \in {"NotFound", "TypeMismatch"}
             /\ last'.made = 0
             /\ last'.ret = NoAddr
             /\ registeredInstances' = registeredInstances
     /\ (/\ last'.op = "createByNameWithoutStoringShared"
         /\ FitsCall(registeredFactories, last'.reg, last'.type, last'.nargs)
         /\ registeredFactories[last'.reg][getType(last'.type)].shape = "unique")
          => /\ last'.status = "ok" /\ last'.made = 1
             /\ last'.ret[1] = "val"]_vars

\* C15 witness: the unique request was refused against a shared factory that
\* takes the arguments of the call
C15_Witness ==
  /\ last.op = "createByNameWithoutStoring" /\ last.status = "TypeMismatch"
  /\ FitsCall(registeredFactories, last.reg, last.type, last.nargs)
  /\ registeredFactories[last.reg][getType(last.type)].shape = "shared"

\* C16: a retrieval or creation call ends well, with one of the two registry
\* errors (IocException), or with the failure of the factory body; a factory
\* called with arguments that do not match its signature is such a registry error.
C16_OnlyRegistryErrors ==
  (last.op \in CallOps)
    => last.status \in {"ok", "NotFound", "TypeMismatch", "factory_error"}

\* C17: a retrieval or creation call that fails leaves the bindings, the
\* factories and the objects of every registry as they were, and once a factory
\* that fits the call is registered in the registry the identical call succeeds.
C17_FailureChangesNothing ==
  [][/\ (last'.op \in CallOps /\ last'.status # "ok")
          => UNCHANGED <<registeredInstances, registeredFactories, parent, alive, heap>>
     /\ (/\ last.op \in CallOps /\ last.status # "ok"
         /\ last'.op = "registerFactory"
         /\ last'.reg = last.reg /\ last'.type = last.type
         /\ FitsCall(registeredFactories', last.reg, last.type, last.nargs)
         /\ (last.op = "createByNameWithoutStoring")
              => registeredFactories'[last.reg][getType(last.type)].shape = "unique")
          => \A fresh \in ObjIds \ DOMAIN heap' :
               CallStatus(World', last.op, last.reg, last.type, last.name, last.nargs,
                          fresh) = "ok"]_vars

\* C17 witness: the body of the factory threw in a create on a key that is bound
C17_Witness ==
  /\ last.op = "createByName" /\ last.status = "factory_error"
  /\ Bound(World, last.reg, getType(last.type), last.name)

\* Thread t is at a step that reads or writes the maps of registry r
Accessing(t, r) ==
  /\ Inside(t) /\ Top(t).reg = r
  /\ \/ Top(t).fn = "createByName" /\ Top(t).pc = "lookup"
     \/ Top(t).fn \in LockedFns /\ Top(t).pc \in {"body", "refind", "children"}
\* Thread t is inside an operation that writes the maps of registry r
InsideMutating(t, r) ==
  \E fr \in FramesOf(t) :
    /\ fr.reg = r /\ fr.pc # "entry"
    /\ fr.fn \in {"registerFactory", "bindInstanceInternal"}
\* The frames of the public operations (bindInstanceInternal is reached through
\* bindInstance)
PublicFns == LockedFns \cup {"createByName"}

\* C18: every public operation holds the lock of its registry from its first
\* step to its return, and no thread reads or writes the bindings or factories
\* of a registry while another thread is inside a mutating operation on it.
C18_LockHeldThroughout ==
  /\ \A t \in Threads : \A fr \in FramesOf(t) :
        (fr.fn \in PublicFns /\ fr.pc # "entry") => mutex[fr.reg].owner = t
  /\ \A t \in Threads, u \in Threads, r \in Regs :
        t # u => ~(Accessing(t, r) /\ InsideMutating(u, r))

\* The products made for a key that are not bound yet
Pending(t, r, key, n) ==
  {fr \in FramesOf(t) : /\ fr.fn = "bindInstanceInternal" /\ fr.pc # "exit"
                         /\ fr.reg = r /\ getType(fr.type) = key /\ fr.name = n}
Retrieved(t) == done[t].op \in Retrievals /\ done[t].status = "ok"

\* C19: with threads calling getPtr/getRef/getShared<T>(n) on one registry that
\* has a factory for T, the factory is invoked only while (T, n) is unbound and
\* by one thread at a time, the entry once inserted is never replaced, and
\* every thread receives the object of that entry: no two threads both created,
\* none received another object.
C19_NoDoubleCreate ==
  [][/\ \A n \in Names :
          Bound(World, Root, "A", n)
            => Slot(registeredInstances', Root, "A", n) = Slot(registeredInstances, Root, "A", n)
     /\ \A t \in Threads, n \in Names :
          (Pending(t, Root, "A", n)' # {})
            => /\ ~Bound(World', Root, "A", n)
               /\ \A u \in Threads \ {t} : Pending(u, Root, "A", n)' = {}
     /\ \A t \in Threads :
          Retrieved(t)'
            => /\ done'[t].ret = Addr(Slot(registeredInstances', done'[t].reg,
                                           getType(done'[t].type), done'[t].name))
               /\ \A u \in Threads \ {t} :
                    (Retrieved(u)' /\ done'[u].name = done'[t].name)
                      => /\ done'[u].ret = done'[t].ret
                         /\ done'[u].made + done'[t].made <= 1]_vars

\* C19 witness: two threads retrieved the same key, one of them had the factory
\* invoked, and both hold the same object
C19_Witness ==
  \E t \in Threads, u \in Threads :
    /\ t # u /\ Retrieved(t) /\ Retrieved(u)
    /\ done[t].name = done[u].name
    /\ done[t].made = 1 /\ done[u].made = 0
    /\ done[t].ret = done[u].ret
    /\ done[t].op # done[u].op

\* Thread t waits for the lock of registry r
Waiting(t, r) ==
  /\ Inside(t) /\ Top(t).fn \in LockedFns /\ Top(t).pc = "entry" /\ Top(t).reg = r
  /\ mutex[r].owner \notin {NoThread, t}

\* C20: no state is reachable in which two threads each hold the lock of one
\* registry of the tree and wait for the lock the other holds (so that every
\* operation can return), with size(true) walking into children and factory
\* bodies calling into the parent while the lock of their registry is held.
C20_NoLockCycle ==
  \A t \in Threads, u \in Threads, r \in Regs, q \in Regs :
    (t # u /\ r # q)
      => ~(/\ mutex[r].owner = t /\ Waiting(t, q)
           /\ mutex[q].owner = u /\ Waiting(u, r))

\* Thread t is about to take a lock that it holds already
Reentering(t) ==
  /\ Inside(t) /\ Top(t).fn \in LockedFns /\ Top(t).pc = "entry"
  /\ mutex[Top(t).reg].owner = t

\* C21: a factory invoked by a retrieval, the lock of the registry held, may
\* call bind, get, contains, create or size on the same registry for another
\* key: the thread takes the lock again without waiting, and the retrieval
\* that ends well returns the instance the factory made, bound at its key,
\* with the entry the factory body bound or retrieved present as well.
C21_FactoryMayReenter ==
  [][/\ \A t \in Threads : Reentering(t) => ENABLED Lock(t)
     /\ \A t \in Threads :
          (~Retrieved(t) /\ Retrieved(t)' /\ done'[t].made >= 1)
            => /\ done'[t].ret = Addr(Slot(registeredInstances', Root, "A", done'[t].name))
               /\ done'[t].ret[1] = "val"
               /\ (registeredFactories[Root]["A"].maker \in {"binds", "gets", "creates"})
                    => Bound(World', Root, "B", done'[t].name)
               /\ (registeredFactories[Root]["A"].maker = "binds")
                    => Slot(registeredInstances', Root, "B", done'[t].name)
                         = Holder("B", "ext", ExtD, "borrowed")]_vars

\* C21 witness: a retrieval of A returned the product of its factory, whose
\* body had created B in the same registry under the lock of the retrieval
C21_Witness ==
  \E t \in Threads :
    /\ Retrieved(t) /\ done[t].type = "A" /\ done[t].made = 2
    /\ registeredFactories[Root]["A"].maker = "creates"
    /\ Bound(World, Root, "A", "") /\ Bound(World, Root, "B", "")
    /\ registeredInstances[Root]["B"][""].kind = "val"

\* C22: on a registry with the factory of child registries in place, the first
\* getRef<IocContainer>(n) for an unbound n makes a new empty registry whose
\* parent is the registry asked, keeps it at (IocContainer, n) so that size()
\* grows by 1, and it is none of the children under another name; every later
\* getRef<IocContainer>(n) returns that child, nothing made, contents as they
\* were.
C22_ChildOnFirstAccess ==
  [][(last'.op = "getRef" /\ last'.type = "IocContainer") =>
       LET r == last'.reg
           n == last'.name
           c == last'.ret[2]
       IN /\ registeredFactories[r]["IocContainer"] = DefaultFactory(r)
          /\ last'.status = "ok" /\ last'.ret[1] = "reg"
          /\ Slot(registeredInstances', r, "IocContainer", n)
               = Holder("IocContainer", "reg", c, "owned")
          /\ IF ~Bound(World, r, "IocContainer", n)
             THEN /\ last'.made = 1
                  /\ c \notin alive /\ c \in alive'
                  /\ parent'[c] = r
                  /\ registeredInstances'[c] = EmptyMap
                  /\ size(World', c, TRUE, 0) = 0
                  /\ registeredFactories'[c] = DefaultFactories(c)
                  /\ size(World', r, FALSE, 0) = size(World, r, FALSE, 0) + 1
                  /\ \A m \in Names \ {n} :
                       Slot(registeredInstances', r, "IocContainer", m)
                         = Slot(registeredInstances, r, "IocContainer", m)
                  /\ \A a \in alive : \A h \in HoldersOf(World', a) :
                       (h.kind = "reg" /\ h.id = c) => (a = r /\ h = Slot(registeredInstances', r, "IocContainer", n))
             ELSE /\ last'.made = 0
                  /\ last'.ret = Addr(Slot(registeredInstances, r, "IocContainer", n))
                  /\ UNCHANGED <<registeredInstances, registeredFactories, parent, alive, heap>>]_vars

\* C22 witness: a registry holds two different children under the two names,
\* and a later getRef gave back the one that has contents
C22_Witness ==
  /\ last.op = "getRef" /\ last.type = "IocContainer" /\ last.made = 0
  /\ Bound(World, last.reg, "IocContainer", "") /\ Bound(World, last.reg, "IocContainer", "a")
  /\ registeredInstances[last.reg]["IocContainer"][""].id
       # registeredInstances[last.reg]["IocContainer"]["a"].id
  /\ registeredInstances[last.ret[2]] # EmptyMap
  /\ parent[last.ret[2]] = last.reg

\* The heap cells that holders of registry r refer to
CellsOf(w, r) == {h.id : h \in {x \in HoldersOf(w, r) : x.kind = "val"}}

\* C23: a step of bindValue or of bindInstance with a unique_ptr leaves under
\* the key one owning holder of a newly allocated live instance that has the
\* bound value; the instance the key held before is held by no registry any
\* more, and it is destroyed unless the caller has a shared handle to it
C23_OwnedRebind ==
  [][last'.op \in {"bindValue", "bindUnique"} =>
       LET r == last'.reg
           n == last'.name
           key == getType(last'.type)
           new == Slot(registeredInstances', r, key, n)
           old == Slot(registeredInstances, r, key, n)
       IN /\ Bound(World', r, key, n)
          /\ new.kind = "val" /\ new.own = "owned" /\ new.htype = last'.type
          /\ new.id \notin DOMAIN heap /\ new.id \in DOMAIN heap'
          /\ heap'[new.id] = last'.ret[2]
          /\ \A q \in alive' : \A k \in DOMAIN registeredInstances'[q] :
               \A m \in DOMAIN registeredInstances'[q][k] :
                 registeredInstances'[q][k][m].id = new.id
                   /\ registeredInstances'[q][k][m].kind = "val"
                   => q = r /\ k = key /\ m = n
          /\ Bound(World, r, key, n) /\ old.kind = "val" =>
               /\ old.id # new.id
               /\ \A q \in alive' : old.id \notin CellsOf(World', q)
               /\ old.id \in DOMAIN heap' <=> old.id \in handles
          /\ handles' = handles /\ deleted' = deleted]_vars

\* C23 witness: the key was bound again by value while the caller had a shared
\* handle to the instance bound before; that instance lives on outside the
\* registry, which owns the new one
C23_Witness ==
  /\ last.op = "bindValue" /\ last.reg = Root /\ last.type = "A"
  /\ Bound(World, Root, "A", "")
  /\ \E o \in handles :
       /\ o # Slot(registeredInstances, Root, "A", "").id
       /\ o \in DOMAIN heap
       /\ heap[o] # heap[Slot(registeredInstances, Root, "A", "").id]
       /\ o \notin CellsOf(World, Root)

\* The registries that hold the caller's object d
HoldsD(w) == {r \in w.alive : \E h \in HoldersOf(w, r) : h.kind = "ext" /\ h.id = ExtD}

\* C24: no step makes a registry delete the caller's object d, also not a
\* step that rebinds or erases a key d was bound to by reference or by
\* pointer, or that destroys a registry d was bound in; and getRef and getPtr
\* of a key d is bound to return d itself and allocate nothing
C24_BorrowedNeverDestroyed ==
  [][/\ deleted' = {}
     /\ \A r \in alive' : \A h \in HoldersOf(World', r) :
          h.kind = "ext" => h.own = "borrowed" /\ h.id = ExtD
     /\ (/\ last'.op \in {"getRef", "getPtr"}
         /\ Bound(World, last'.reg, getType(last'.type), last'.name)
         /\ Slot(registeredInstances, last'.reg, getType(last'.type), last'.name).kind = "ext")
        => /\ last'.status = "ok"
           /\ last'.ret = <<"ext", ExtD>>
           /\ last'.made = 0
           /\ UNCHANGED <<registeredInstances, registeredFactories, parent, alive, heap>>
    ]_vars

\* C24 witness: getRef in the root returned d, bound there after a value the
\* caller still has a shared handle to; d is bound nowhere else, no child
\* registry is alive and nothing of the caller was deleted
C24_Witness ==
  /\ last.op = "getRef" /\ last.reg = Root /\ last.type = "A"
  /\ last.ret = <<"ext", ExtD>>
  /\ HoldsD(World) = {Root}
  /\ alive = {Root}
  /\ handles # {}
  /\ deleted = {}

\* The holders of heap values in the registries of a set
ValueHolders(w, regs) ==
  {h \in UNION {HoldersOf(w, r) : r \in regs} : h.kind = "val"}

\* What every step that destroys registries does, whatever the claim about
\* the values they own: the registries they own go with them, nothing of the
\* caller is deleted, values bound from a shared_ptr live on exactly while
\* the caller has a handle, and the registries that stay keep their bindings
\* and factories, but for the binding whose erasure released the registry
DestroyKeepsRest ==
  LET gone == alive \ alive' IN
  /\ \A r \in gone : OwnedRegs(World, r) \subseteq gone
  /\ deleted' = deleted
  /\ handles' = handles
  /\ \A h \in ValueHolders(World, gone) :
       h.own = "shared" => (h.id \in DOMAIN heap' <=> h.id \in handles)
  /\ \A o \in DOMAIN heap' : heap'[o] = heap[o]
  /\ \A o \in DOMAIN heap \ {h.id : h \in ValueHolders(World, gone)} :
       o \in DOMAIN heap'
  /\ \A r \in alive' :
       /\ registeredFactories'[r] = registeredFactories[r]
       /\ parent'[r] = parent[r]
       /\ registeredInstances'[r] =
            IF r = last'.reg
            THEN eraseInstance(World, r, last'.type, last'.name).inst[r]
            ELSE registeredInstances[r]

C26_QualifiersSameEntry ==
  [][Bound(World, last'.reg, getType(last'.type), last'.name) =>
       /\ last'.op \in {"get", "getPtr", "getRef", "getShared"} =>
            /\ last'.status = "ok"
            /\ last'.made = 0
            /\ last'.op # "get" =>
                 last'.ret = Addr(Slot(registeredInstances, last'.reg,
                                       getType(last'.type), last'.name))
       /\ last'.op = "contains" => last'.ret = <<"bool", 1>>]_vars

\* A registry as its constructor leaves it, but for the parent link
NewRegistry(w, r) ==
  /\ w.inst[r] = EmptyMap
  /\ size(w, r, FALSE, 0) = 0
  /\ size(w, r, TRUE, 0) = 0
  /\ DOMAIN w.fact[r] = {"IocContainer"}
  /\ w.fact[r]["IocContainer"] = DefaultFactory(r)

\* C27: the registry the caller constructs has no bindings, no parent and
\* the factory of child registries alone, and so has every registry that this
\* factory constructs, whose parent link the factory then sets; size() and
\* size(true) of a registry without bindings return 0 although it has the
\* factory
C27_NewRegistry ==
  [][/\ last.op = "init" => NewRegistry(World, Root) /\ parent[Root] = NoReg
     /\ \A c \in alive' \ alive :
          NewRegistry(World', c) /\ parent'[c] = last'.reg
     /\ (/\ last'.op \in {"size", "sizeRecursive"}
         /\ registeredInstances[last'.reg] = EmptyMap)
        => /\ last'.ret = <<"count", 0>>
           /\ NewRegistry(World, last'.reg)]_vars

\* C27 witness: size(true) of a newly made child registry, which has no
\* bindings and one factory, returned 0 while its parent has bindings
C27_Witness ==
  /\ last.op = "sizeRecursive" /\ last.reg # Root
  /\ last.ret = <<"count", 0>>
  /\ NewRegistry(World, last.reg)
  /\ parent[last.reg] = Root
  /\ Cardinality(DOMAIN registeredInstances[Root]) = 2

\* Thread t is in registry code alone: no call on its stack was made by the
\* body of a caller's factory
RegistryCodeAlone(t) ==
  \A i \in 1..(Len(stack[t]) - 1) : stack[t][i].pc # "construct"

\* C28: a thread that is in registry code alone holds the lock of at most one
\* registry, so an operation on a parent takes no lock of a child and an
\* operation on a child takes no lock of its parent
C28_OneLockPerThread ==
  \A t \in Threads :
    RegistryCodeAlone(t) => Cardinality({r \in Regs : mutex[r].owner = t}) <= 1

\* C29: get, getPtr, getRef and getShared of a bound key invoke no factory
\* and change nothing, with or without a factory registered for the type, and
\* asked with the type the key was bound with they return the bound object
C29_StoreHitFirst ==
  [][(/\ last'.op \in {"get", "getPtr", "getRef", "getShared"}
      /\ Bound(World, last'.reg, getType(last'.type), last'.name))
       => LET h == Slot(registeredInstances, last'.reg, getType(last'.type), last'.name)
          IN /\ last'.made = 0
             /\ UNCHANGED <<registeredInstances, registeredFactories, parent, alive, heap>>
             /\ h.htype = last'.type =>
                  /\ last'.status = "ok"
                  /\ last'.ret = IF last'.op = "get" THEN <<"value", Deref(World, h)>>
                                 ELSE Addr(h)]_vars

\* C29 witness: getRef returned the caller's object d, bound by reference,
\* while a factory for the type is registered and the other name holds a
\* product of that factory
C29_Witness ==
  /\ last.op = "getRef" /\ last.type = "A" /\ last.status = "ok" /\ last.made = 0
  /\ last.ret = <<"ext", ExtD>>
  /\ "A" \in DOMAIN registeredFactories[Root]
  /\ \E n \in Names \ {last.name} :
       /\ Bound(World, Root, "A", n)
       /\ Slot(registeredInstances, Root, "A", n).kind = "val"
       /\ Slot(registeredInstances, Root, "A", n).own = "shared"

\* C30: every holder is stored under the key of its recorded type, and no
\* get, getPtr, getRef or getShared ends with TypeMismatch
C30_TypeMismatchUnreachable ==
  /\ \A r \in alive : \A k \in DOMAIN registeredInstances[r] :
       \A n \in DOMAIN registeredInstances[r][k] :
         getType(registeredInstances[r][k][n].htype) = k
  /\ last.op \in {"get", "getPtr", "getRef", "getShared"} => last.status # "TypeMismatch"

CachingOps == {"get", "getPtr", "getRef", "getShared"}

\* C31 as stated: once a retrieval has put a product of the factory under a
\* key, no retrieval of that key invokes the factory again, whatever was
\* bound or erased in between. Here a shared handle in the caller's hands
\* can only come from getShared<A>(""), and an instance of A on the heap
\* only from a retrieval, so a handle tells that the key has had its product
C31_OncePerKey ==
  [][(/\ last'.op \in CachingOps
      /\ last'.type = "A" /\ last'.name = ""
      /\ handles # {})
       => last'.made = 0]_vars

\* C31 amended: a retrieval invokes the factory only for a key that is not
\* bound, once, and binds the product there, so the factory runs at most
\* once for as long as the key stays bound; a create that stores nothing
\* invokes it whether the key is bound or not and leaves the store alone
C31_OncePerBinding ==
  [][LET r == last'.reg
         key == getType(last'.type)
         n == last'.name
     IN /\ last'.op \in CachingOps =>
             /\ Bound(World, r, key, n) =>
                  last'.made = 0 /\ registeredInstances' = registeredInstances
             /\ last'.made > 0 =>
                  /\ last'.made = 1
                  /\ ~Bound(World, r, key, n)
                  /\ key \in DOMAIN registeredFactories[r]
                  /\ last'.status \in {"ok", "factory_error"}
                  /\ last'.status = "ok" =>
                       /\ Bound(World', r, key, n)
                       /\ Slot(registeredInstances', r, key, n).kind = "val"
                       /\ Slot(registeredInstances', r, key, n).id \notin DOMAIN heap
                  /\ last'.status = "factory_error" =>
                       registeredInstances' = registeredInstances
        /\ last'.op = "createByNameWithoutStoring" =>
             /\ registeredInstances' = registeredInstances
             /\ (key \in DOMAIN registeredFactories[r]
                   /\ registeredFactories[r][key].shape = "unique"
                   /\ last'.status # "nomem") => last'.made = 1]_vars

\* C31 witness: the caller holds the instance that getShared made for the key,
\* the key was erased and a later getPtr has made and bound another instance
C31_Witness ==
  /\ last.op = "getPtr" /\ last.type = "A" /\ last.name = ""
  /\ last.status = "ok" /\ last.made = 1
  /\ handles # {}
  /\ Bound(World, Root, "A", "")
  /\ Slot(registeredInstances, Root, "A", "").id \notin handles
  /\ Slot(registeredInstances, Root, "A", "").kind = "val"

\* C32: an entry that a step removes from the store of a registry that lives
\* on was the target of that step, an eraseInstance on the registry; a
\* registry goes only with the erasure of the entry that holds it; and no
\* other operation makes size() of a registry smaller
C32_NoEviction ==
  [][/\ \A r \in alive \cap alive' : \A k \in DOMAIN registeredInstances[r] :
          \A n \in DOMAIN registeredInstances[r][k] :
            ~Bound(World', r, k, n) =>
              /\ last'.op = "eraseInstance" /\ last'.reg = r
              /\ getType(last'.type) = k /\ last'.name = n
     /\ alive \ alive' # {} =>
          last'.op = "eraseInstance" /\ last'.type = "IocContainer"
     /\ last'.op # "eraseInstance" =>
          \A r \in alive :
            Cardinality(EntriesOf(registeredInstances', r))
              >= Cardinality(EntriesOf(registeredInstances, r))]_vars

\* C32 witness: bindValue under the second name in the child went through
\* and the entry under the first name is still there
C32_Witness ==
  /\ last.op = "bindValue" /\ last.name = "a" /\ last.reg # Root
  /\ \A n \in Names : Bound(World, last.reg, "A", n)
  /\ Cardinality(EntriesOf(registeredInstances, last.reg)) = 2
  /\ "A" \in DOMAIN registeredFactories[last.reg]

\* C33: the parent link of every registry that a registry holds as its own
\* designates the holding registry, also after moves of the holding registry
\* and for the children its factory makes after a move
C33_ParentIsHolder ==
  \A r \in alive : \A h \in HoldersOf(World, r) :
    (h.kind = "reg" /\ h.own # "borrowed") => parent[h.id] = r

\* C34: eraseInstance<T>(n) leaves the factories as they are: with a factory
\* for T registered, contains<T>(n) is true after the erase although the key
\* is not bound, and the getPtr<T>(n) that follows invokes the factory once,
\* binds the product under the key and returns it, an instance that did not
\* exist during the erase; size() is one less after the erase and one more
\* after the getPtr, back at its value before the erase
C34_EraseKeepsFactory ==
  [][/\ last'.op = "eraseInstance" =>
          LET r == last'.reg
              key == getType(last'.type)
              n == last'.name
          IN /\ registeredFactories' = registeredFactories
             /\ ~Bound(World', r, key, n)
             /\ contains(World', r, last'.type, n) = (key \in DOMAIN registeredFactories[r])
             /\ size(World', r, FALSE, 0)
                  = size(World, r, FALSE, 0) - IF Bound(World, r, key, n) THEN 1 ELSE 0
     /\ (/\ last.op = "eraseInstance"
         /\ FitsCall(registeredFactories, last.reg, last.type, 0)
         /\ last'.op = "getPtr" /\ SameKey)
          => LET r == last.reg
                 key == getType(last.type)
                 n == last.name
             IN /\ last'.status = "ok" /\ last'.made = 1
                /\ Bound(World', r, key, n)
                /\ last'.ret = Addr(Slot(registeredInstances', r, key, n))
                /\ last'.ret[1] = "val" /\ last'.ret[2] \notin DOMAIN heap
                /\ size(World', r, FALSE, 0) = size(World, r, FALSE, 0) + 1]_vars

\* C34 witness: the caller keeps a shared handle to the product of the
\* factory, the only entry of the registry is a second product that getPtr
\* has just made with the shared factory, at another address than the first
C34_Witness ==
  /\ last.op = "getPtr" /\ last.status = "ok" /\ last.made = 1
  /\ handles # {} /\ last.ret[2] \notin handles
  /\ Slot(registeredInstances, last.reg, "A", last.name).own = "shared"
  /\ last.ret = Addr(Slot(registeredInstances, last.reg, "A", last.name))
  /\ size(World, last.reg, FALSE, 0) = 1

\* C35: registerFactory<T>(factory) puts the factory under the key of T of
\* the registry in place of any factory that is there, the one the
\* constructor registered for registries included, and changes nothing
\* else: the factories of the other types, the bindings, the instances and
\* every size() stay as they are. An instance made afterwards is made by the
\* factory that is registered when it is made: an A has the value that
\* factory gives, a registry made by a factory of the caller has no parent
C35_RegisterReplaces ==
  [][/\ last'.op = "registerFactory" =>
          LET r == last'.reg
              given == FactoryDesc(last'.ret[1], last'.type, last'.nargs, "user", NoReg,
                                   last'.ret[2])
          IN /\ registeredFactories'
                  = [registeredFactories EXCEPT ![r] = MapPut(@, getType(last'.type), given)]
             /\ registeredInstances' = registeredInstances
             /\ heap' = heap /\ alive' = alive /\ parent' = parent
             /\ \A q \in alive : \A recursive \in BOOLEAN :
                  size(World', q, recursive, 0) = size(World, q, recursive, 0)
     /\ (/\ last'.op \in {"getPtr", "getRef", "createByName"}
         /\ last'.status = "ok" /\ last'.made = 1)
          => LET r == last'.reg
                 key == getType(last'.type)
                 f == registeredFactories[r][key]
                 made == Slot(registeredInstances', r, key, last'.name)
             IN /\ key \in DOMAIN registeredFactories[r]
                /\ registeredFactories'[r] = registeredFactories[r]
                /\ key = "A" => made.kind = "val" /\ heap'[made.id] = f.tag
                /\ key = "IocContainer" =>
                     /\ made.kind = "reg" /\ made.id \notin alive
                     /\ parent'[made.id] = IF f.maker = "user" THEN NoReg ELSE r]_vars

\* C35 witness: the instance under the unnamed key was made by the first
\* factory of A, the second factory was registered over it and getPtr has
\* made the instance under the other name with it; the registry type has the
\* caller's factory and a registry made by it is bound
C35_Witness ==
  /\ last.op = "getPtr" /\ last.status = "ok" /\ last.made = 1 /\ last.name = "a"
  /\ registeredFactories[Root]["A"].tag = 2
  /\ Bound(World, Root, "A", "")
  /\ heap[Slot(registeredInstances, Root, "A", "").id] = 1
  /\ heap[Slot(registeredInstances, Root, "A", "a").id] = 2
  /\ registeredFactories[Root]["IocContainer"].maker = "user"
  /\ \E n \in Names :
       /\ Bound(World, Root, "IocContainer", n)
       /\ parent[Slot(registeredInstances, Root, "IocContainer", n).id] = NoReg

\* C36: size(true) returns on every registry of every configuration that the
\* bind operations can build, those included where a registry is bound by
\* reference under itself or under a registry below it
C36_SizeTerminates ==
  \A r \in alive : size(World, r, TRUE, 0) # Diverges

\* The name-maps of a store all have an entry, so the store has as many
\* outer keys as types with an entry
NoEmptyNameMap(inst) ==
  \A r \in Regs :
    /\ \A k \in DOMAIN inst[r] : DOMAIN inst[r][k] # {}
    /\ Cardinality(DOMAIN inst[r]) = Cardinality({e[1] : e \in EntriesOf(inst, r)})

\* C37: no type of the store of a registry maps to an empty name-map, before
\* and after every step: a type gets its name-map together with an entry,
\* and the eraseInstance that removes the only entry of a type removes the
\* name-map of the type, while one that leaves an entry leaves the name-map
C37_NoEmptyNameMap ==
  [][/\ NoEmptyNameMap(registeredInstances)
     /\ NoEmptyNameMap(registeredInstances')
     /\ last'.op = "eraseInstance" =>
          LET r == last'.reg
              key == getType(last'.type)
          IN (key \in DOMAIN registeredInstances'[r])
               = (key \in DOMAIN registeredInstances[r]
                    /\ DOMAIN registeredInstances[r][key] \ {last'.name} # {})]_vars

\* C37 witness: after an eraseInstance<A> on a child registry the store of
\* the child has no name-map for A, the root still has one with both names
\* and one for the registry type
C37_Witness ==
  /\ last.op = "eraseInstance" /\ last.type = "A" /\ last.reg # Root
  /\ "A" \notin DOMAIN registeredInstances[last.reg]
  /\ DOMAIN registeredInstances[Root] = {"A", "IocContainer"}
  /\ DOMAIN registeredInstances[Root]["A"] = Names
====
